---- MODULE Spec2Model ----
(***************************************************************************)
(* The sandboxed runtime engine (2D sprites / 3D meshes), the LeapGuard    *)
(* core (instrument, reportIncident) and the safety protocol               *)
(* (quarantineAction) of Leap-AI, as a state machine.                      *)
(*                                                                         *)
(* JavaScript values: the undefined value is the string "undefined", null  *)
(* is "null"; an object is a record; an object's identity is its `ref`     *)
(* field, a number no other object of the run carries (it is not a field   *)
(* of the JavaScript object, it is the object's address). Ids and stored   *)
(* data values are written as strings ("7" is the number 7).               *)
(* A call's result is a record [E, threw, error, value]: E the engine      *)
(* state after the call, threw whether the call raised, error the raised   *)
(* exception. A call's argument list is a sequence: <<>> is a call with no  *)
(* argument (the parameter is then undefined).                             *)
(***************************************************************************)
EXTENDS Integers, Sequences, FiniteSets, TLC

\* ---------------------------------------------------------------- bounds
\* objects and callbacks created in one run
MaxRefs == 3
\* particles alive at once
MaxParticles == 1
\* distinct incidents reported in one run of the debugger
MaxReports == 3
\* distinct incidents reported beyond the capacity, in the capacity run
MaxOverflow == 2
\* frames of the loop in one run
MaxFrames == 3

\* sprites created in one run of the frame loop
MaxSprites == 2
\* calls of LeapGuard.init in one run, the engine script's own included
MaxInits == 3
\* visual-editor-select messages posted in one run
MaxSelects == 1

\* ------------------------------------------------------ program constants
\* debugger.ts: if (this._incidents.size > 100)
MaxIncidents == 100

Undefined == "undefined"
Null == "null"

VARIABLES
    workspaceType,      \* which engine script the composer assembled: "2D" | "3D"
    scenes,             \* scene name -> setup function
    sprites,            \* 2D live registry (array of sprite instances)
    particles,          \* 2D particle array
    onUpdateCallback,   \* the registered per-frame callback
    camera,             \* 2D camera {x, y, shakeIntensity, shakeDuration}
    state,              \* the key/value Map of setData/getData
    meshes,             \* 3D live registry (array of mesh uuids)
    sceneChildren,      \* 3D scene graph: scene.children
    cameraTarget,       \* 3D camera follow target
    _incidents,         \* leapGuardCore._incidents, in insertion order
    posted,             \* debugger-incident messages posted to the host
    nextRef,            \* next object identity to hand out
    console,            \* console output of the last call
    handles,            \* object handles game code holds (returned by create)
    lastSet,            \* key -> value of the most recent setData(key, value)
    loadStart,          \* nextRef at the start of the last load of a defined scene
    reported,           \* the (threatLevel, suspect, message) triples reported so far
    inserted,           \* every key added to _incidents, in the order of the additions
    lastCall,           \* the last call made, its input and outcome
    lastTime,           \* 2D: timestamp of the previous frame
    loopRunning,        \* whether a next frame of the loop is requested
    frame,              \* the last frame: what it did, and the frames so far
    _healthCheckIntervalId, \* leapGuardCore._healthCheckIntervalId, 0 for null
    intervals,          \* the interval timers that are active: id and check
    hostLog,            \* 'console' messages posted to the host by the last call
    assetCache,         \* the urls of the images that are loaded
    loadingAssets,      \* the urls of the images that are being loaded
    images,             \* the Image objects whose load has not ended, by url, oldest first
    keysPressed,        \* inputManager: the keys that are down
    keysJustPressed,    \* inputManager: the keys that went down and were not cleared
    isInspectMode,      \* visual editor: whether inspect mode is on
    mousePos,           \* visual editor: the mouse position on the canvas
    hoveredSprite,      \* 2D visual editor: the sprite under the mouse, <<>> for null
    hoveredMesh,        \* 3D visual editor: the mesh under the mouse, <<>> for null
    boxHelper,          \* 3D visual editor: the mesh the box helper outlines, <<>> for null
    selects,            \* the 'visual-editor-select' payloads posted to the host
    background,         \* 2D background {url, scrollSpeedX, scrollSpeedY}
    simulated           \* one sprite's velocity over a second, stepped at 60 and at 30 frames/s

vars == <<workspaceType, scenes, sprites, particles, onUpdateCallback, camera,
          state, meshes, sceneChildren, cameraTarget, _incidents, posted,
          nextRef, console, handles, lastSet, loadStart, reported, inserted,
          lastCall, lastTime, loopRunning, frame, _healthCheckIntervalId,
          intervals, hostLog, assetCache, loadingAssets, images, keysPressed,
          keysJustPressed, isInspectMode, mousePos, hoveredSprite, hoveredMesh,
          boxHelper, selects, background, simulated>>

\* the state of the input manager, and of the visual editor
inputVars == <<keysPressed, keysJustPressed>>

editorVars == <<isInspectMode, mousePos, hoveredSprite, hoveredMesh, boxHelper, selects>>

\* The mutable engine and debugger state as one value, for the functions below.
Cur ==
    [sprites |-> sprites, particles |-> particles,
     onUpdateCallback |-> onUpdateCallback, camera |-> camera, state |-> state,
     meshes |-> meshes, sceneChildren |-> sceneChildren,
     cameraTarget |-> cameraTarget, _incidents |-> _incidents,
     posted |-> posted, nextRef |-> nextRef, console |-> <<>>,
     handles |-> handles, lastSet |-> lastSet, reported |-> reported,
     inserted |-> inserted, assetCache |-> assetCache,
     loadingAssets |-> loadingAssets, images |-> images, background |-> background]

Commit(E) ==
    /\ sprites' = E.sprites
    /\ particles' = E.particles
    /\ onUpdateCallback' = E.onUpdateCallback
    /\ camera' = E.camera
    /\ state' = E.state
    /\ meshes' = E.meshes
    /\ sceneChildren' = E.sceneChildren
    /\ cameraTarget' = E.cameraTarget
    /\ _incidents' = E._incidents
    /\ posted' = E.posted
    /\ nextRef' = E.nextRef
    /\ console' = E.console
    /\ handles' = E.handles
    /\ lastSet' = E.lastSet
    /\ reported' = E.reported
    /\ inserted' = E.inserted
    /\ assetCache' = E.assetCache
    /\ loadingAssets' = E.loadingAssets
    /\ images' = E.images
    /\ background' = E.background

Returned(E, v) == [E |-> E, threw |-> FALSE, error |-> "none", value |-> v]
Threw(E, e) == [E |-> E, threw |-> TRUE, error |-> e, value |-> Undefined]

Log(E, level, text) ==
    [E EXCEPT !.console = Append(E.console, [level |-> level, text |-> text])]

\* Array.prototype.find, given the indices of the elements that satisfy the
\* test: the first of them, 0 when there is none (find then returns undefined)
Find(hits) ==
    IF hits = {} THEN 0 ELSE CHOOSE i \in hits : \A j \in hits : i <= j

Range(seq) == {seq[i] : i \in DOMAIN seq}

\* JavaScript truthiness of an id: ids are written as strings, "0" is the
\* number 0
Truthy(v) == v \notin {"0", Undefined, Null, ""}

\* { ...defaults, ...config }
Spread(defaults, config) ==
    [k \in DOMAIN defaults \cup DOMAIN config |->
        IF k \in DOMAIN config THEN config[k] ELSE defaults[k]]

\* Math.random(): a value in [0, 1) that, but for a chance of 2^-52, is neither
\* 0 nor a value drawn before; modelled as a fresh value distinct from every id
\* a config supplies.
MathRandom(E) == "0." \o ToString(E.nextRef)

\* ------------------------------------------------------------ LeapGuard core

\* reportIncident that evicts the key it has just added
reportIncidentEvictsNewest(E, threatLevel, suspect, message, context) ==
    LET incidentHash == threatLevel \o suspect \o message
        added == Append(E._incidents, incidentHash)
        kept == IF Len(added) > MaxIncidents THEN E._incidents ELSE added
        payload == [type |-> "debugger-incident", threatLevel |-> threatLevel,
                    suspect |-> suspect, message |-> message, context |-> context]
        E0 == [E EXCEPT !.reported = E.reported \cup {<<threatLevel, suspect, message>>}]
        E1 == [E0 EXCEPT !._incidents = kept,
                         !.inserted = Append(E.inserted, incidentHash)]
    IN  IF incidentHash \in Range(E._incidents) THEN Returned(E0, Undefined)
        ELSE IF context.cloneable
             THEN Returned([E1 EXCEPT !.posted = Append(E.posted, payload)], Undefined)
             ELSE Threw(E1, "DataCloneError")

\* reportIncident(threatLevel, suspect, message, context). context.cloneable
\* says whether the structured clone of postMessage accepts the context (it
\* raises DataCloneError on a function or a DOM node inside it). The sandbox is
\* an iframe, so window.parent !== window. The payload's id, timestamp and
\* stack are left out: nothing reads them. `reported` and `inserted` record the
\* call and the addition.
reportIncident(E, threatLevel, suspect, message, context) ==
    LET incidentHash == threatLevel \o suspect \o message
        added == Append(E._incidents, incidentHash)
        kept == IF Len(added) > MaxIncidents THEN Tail(added) ELSE added
        payload == [type |-> "debugger-incident", threatLevel |-> threatLevel,
                    suspect |-> suspect, message |-> message, context |-> context]
        E0 == [E EXCEPT !.reported = E.reported \cup {<<threatLevel, suspect, message>>}]
        E1 == [E0 EXCEPT !._incidents = kept,
                         !.inserted = Append(E.inserted, incidentHash)]
    IN  IF incidentHash \in Range(E._incidents) THEN Returned(E0, Undefined)
        ELSE IF context.cloneable
             THEN Returned([E1 EXCEPT !.posted = Append(E.posted, payload)], Undefined)
             ELSE Threw(E1, "DataCloneError")

\* instrument(functionName, originalFn)(...args), given what originalFn(...args)
\* did (R) and whether args survive a structured clone.
instrument(functionName, R, argsCloneable) ==
    IF ~R.threw THEN R
    ELSE LET rep == reportIncident(R.E, "trusted", "Exception in " \o functionName,
                                   R.error, [cloneable |-> argsCloneable])
         IN  IF rep.threw THEN rep ELSE Threw(rep.E, R.error)

\* ------------------------------------------------------------- 2D engine

\* a callback is the function registered and `stale`, whether it was registered
\* before the scene load in progress began (set by Aged)
NoopCallback == [fn |-> "noop", stale |-> FALSE]

SpriteDefaults(E) ==
    [id |-> MathRandom(E), name |-> "unnamed", x |-> 0, y |-> 0,
     width |-> 32, height |-> 32, imageUrl |-> Null, color |-> "white",
     type |-> "game", rotation |-> 0, vx |-> 0, vy |-> 0, ax |-> 0, ay |-> 0,
     drag |-> 0, clampToScreen |-> FALSE, clipX |-> 0, clipY |-> 0,
     clipWidth |-> Null, clipHeight |-> Null]

\* resetSceneState without `particles = []`
resetSceneState2DKeepsParticles(E) ==
    [E EXCEPT !.sprites = <<>>,
              !.onUpdateCallback = NoopCallback,
              !.camera = [x |-> 0, y |-> 0, shakeIntensity |-> 0, shakeDuration |-> 0]]

\* resetSceneState that also clears the data map
resetSceneState2DClearsState(E) ==
    [E EXCEPT !.sprites = <<>>, !.particles = <<>>,
              !.onUpdateCallback = NoopCallback,
              !.camera = [x |-> 0, y |-> 0, shakeIntensity |-> 0, shakeDuration |-> 0],
              !.state = <<>>]

\* resetSceneState of the assembled engine script
resetSceneState2D(E) ==
    [E EXCEPT !.sprites = <<>>, !.particles = <<>>,
              !.onUpdateCallback = NoopCallback,
              !.camera = [x |-> 0, y |-> 0, shakeIntensity |-> 0, shakeDuration |-> 0]]

resetSceneState3D(E) ==
    [E EXCEPT !.sceneChildren = <<>>, !.meshes = <<>>,
              !.onUpdateCallback = NoopCallback, !.cameraTarget = {}]

resetSceneState(E) ==
    IF workspaceType = "2D" THEN resetSceneState2D(E) ELSE resetSceneState3D(E)

\* loadImage without the in-flight set: a load is started whenever the url
\* is not in the cache
loadImageAgain(E, url) ==
    IF url \in E.assetCache THEN Returned(E, url)
    ELSE Returned([E EXCEPT !.loadingAssets = @ \cup {url},
                            !.images = Append(@, url)], Null)

\* loadImage(url): the image when it is in the cache; else null, after the
\* load was started (img.src = url) unless one is in flight. assetCache is
\* the set of the urls it has an image for.
loadImage(E, url) ==
    IF url \in E.assetCache THEN Returned(E, url)
    ELSE IF url \notin E.loadingAssets
    THEN Returned([E EXCEPT !.loadingAssets = @ \cup {url},
                            !.images = Append(@, url)], Null)
    ELSE Returned(E, Null)

\* img.onload of the load of url
imageOnload(E, url) ==
    Returned([E EXCEPT !.assetCache = @ \cup {url}, !.loadingAssets = @ \ {url}],
             Undefined)

\* img.onerror that leaves the url in the in-flight set
imageOnerrorKeepsLoading(E, url) ==
    Returned(Log(E, "error", "Failed to load image: " \o url), Undefined)

\* img.onerror of the load of url
imageOnerror(E, url) ==
    Returned([Log(E, "error", "Failed to load image: " \o url)
                EXCEPT !.loadingAssets = @ \ {url}], Undefined)

\* Engine.create.sprite(config). The instance's destroy closure captures
\* spriteData.id: the handle keeps it as `id`.
createSprite(E, args) ==
    IF args = <<>> THEN Threw(E, "TypeError")
    ELSE LET config == args[1]
             E0 == IF "imageUrl" \in DOMAIN config /\ Truthy(config.imageUrl)
                   THEN loadImage(E, config.imageUrl).E ELSE E
             spriteData == Spread(SpriteDefaults(E0), config)
             spriteInstance == Spread(spriteData, [ref |-> E0.nextRef])
             handle == [ref |-> E0.nextRef, id |-> spriteData.id, kind |-> "sprite"]
         IN  Returned([E0 EXCEPT !.sprites = Append(E0.sprites, spriteInstance),
                                 !.nextRef = E0.nextRef + 1,
                                 !.handles = E0.handles \cup {handle}], handle)

\* Engine.background.setImage(url)
backgroundSetImage(E, url) ==
    Returned(loadImage([E EXCEPT !.background.url = url], url).E, Undefined)

\* Engine.create.particles({count, life}): count particles. Velocity and life
\* are random draws, (Math.random() - 0.5) * 150 and Math.random() * life: the
\* velocity draw 0.5 is taken here, and `drawn` is the outcome of
\* Math.random() * life, a whole number of seconds. `stale` is set by Aged.
createParticles(E, count, drawn) ==
    Returned([E EXCEPT !.particles =
                    @ \o [i \in 1..count |->
                            [stale |-> FALSE, x |-> 0, y |-> 0, vx |-> 0, vy |-> 0,
                             life |-> drawn, color |-> "orange", size |-> 2]]],
             Undefined)

\* spriteInstance.destroy() by index: sprites.splice(sprites.findIndex(...), 1),
\* which removes the last element when the sprite is not found
spriteDestroyBySplice(E, handle) ==
    LET Same(s) == s.id = handle.id
        i == Find({i \in DOMAIN E.sprites : Same(E.sprites[i])})
        at == IF i = 0 THEN Len(E.sprites) ELSE i
    IN  Returned([E EXCEPT !.sprites =
                    [j \in 1..(Len(E.sprites) - (IF at = 0 THEN 0 ELSE 1)) |->
                        IF j < at THEN E.sprites[j] ELSE E.sprites[j + 1]]],
                 Undefined)

\* spriteInstance.destroy()
spriteDestroy(E, handle) ==
    LET Keep(s) == s.id # handle.id
    IN  Returned([E EXCEPT !.sprites = SelectSeq(E.sprites, Keep)], Undefined)

\* Engine.destroy(spriteToDestroy) of the 2D engine
destroy2D(E, args) ==
    IF args # <<>> /\ args[1].kind = "sprite"
    THEN spriteDestroy(E, args[1])
    ELSE LET Keep(s) == args = <<>> \/ s.ref # args[1].ref
         IN  Returned(Log([E EXCEPT !.sprites = SelectSeq(E.sprites, Keep)], "warn",
                          "Engine.destroy is deprecated. Use instance.destroy() instead."),
                      Undefined)

\* ------------------------------------------------------------- 3D engine

Uuid(ref) == "u" \o ToString(ref)

\* scene.remove(object3D)
sceneRemove(children, object3D) ==
    LET Keep(c) == c.ref # object3D.ref IN SelectSeq(children, Keep)

\* Engine.destroy(object3D) of the 3D engine; cleanupObject3D disposes GPU
\* resources and changes nothing the model holds.
destroy3D(E, args) ==
    IF args = <<>> THEN Returned(E, Undefined)
    ELSE LET object3D == args[1]
             Keep(m) == m.ref # object3D.ref
         IN  Returned([E EXCEPT !.sceneChildren = sceneRemove(E.sceneChildren, object3D),
                                !.meshes = SelectSeq(E.meshes, Keep)], Undefined)

\* Engine.create.mesh(config)
createMesh(E, args) ==
    IF args = <<>> THEN Threw(E, "TypeError")
    ELSE LET config == args[1]
             mesh == [ref |-> E.nextRef, uuid |-> Uuid(E.nextRef), kind |-> "mesh",
                      name |-> IF "name" \in DOMAIN config THEN config.name ELSE "unnamed"]
             handle == [ref |-> E.nextRef, id |-> mesh.uuid, kind |-> "mesh"]
         IN  Returned([E EXCEPT !.sceneChildren = Append(E.sceneChildren, mesh),
                                !.meshes = Append(E.meshes, mesh),
                                !.nextRef = E.nextRef + 1,
                                !.handles = E.handles \cup {handle}], handle)

\* Engine.create.light(config): the hemisphere case reads `properties`, which
\* the function does not declare.
createLight(E, args) ==
    IF args = <<>> THEN Threw(E, "TypeError")
    ELSE IF "type" \in DOMAIN args[1] /\ args[1].type = "hemisphere"
    THEN Threw(E, "ReferenceError")
    ELSE LET light == [ref |-> E.nextRef, uuid |-> Uuid(E.nextRef), kind |-> "light",
                       name |-> ""]
             handle == [ref |-> E.nextRef, id |-> light.uuid, kind |-> "light"]
         IN  Returned([E EXCEPT !.sceneChildren = Append(E.sceneChildren, light),
                                !.nextRef = E.nextRef + 1,
                                !.handles = E.handles \cup {handle}], handle)

\* mesh.destroy() / spriteInstance.destroy()
instanceDestroy(E, handle) ==
    IF workspaceType = "2D" THEN spriteDestroy(E, handle) ELSE destroy3D(E, <<handle>>)

\* Engine.destroy(x)
engineDestroy(E, args) ==
    IF workspaceType = "2D" THEN destroy2D(E, args) ELSE destroy3D(E, args)

\* ------------------------------------------------------- both engines

\* onUpdate that keeps the callback registered first
onUpdateKeepsFirst(E, fn) ==
    IF E.onUpdateCallback.fn # "noop" THEN Returned(E, Undefined)
    ELSE Returned([E EXCEPT !.onUpdateCallback = [fn |-> fn, stale |-> FALSE]], Undefined)

\* Engine.onUpdate(callback)
onUpdate(E, fn) ==
    Returned([E EXCEPT !.onUpdateCallback = [fn |-> fn, stale |-> FALSE]], Undefined)

\* Engine.setData(key, value); lastSet records the call
setData(E, key, value) ==
    Returned([E EXCEPT !.state = Spread(E.state, [k \in {key} |-> value]),
                       !.lastSet = Spread(E.lastSet, [k \in {key} |-> value])],
             Undefined)

\* Engine.getData(key)
getData(E, key) == IF key \in DOMAIN E.state THEN E.state[key] ELSE Undefined

\* Engine.camera.shake(intensity, duration)
cameraShake(E, intensity, duration) ==
    Returned([E EXCEPT !.camera.shakeIntensity = intensity,
                       !.camera.shakeDuration = duration], Undefined)


\* ------------------------------------------------------------ game code

\* The setup functions game code passes to scene.define, each a straight line
\* of engine calls; "throw" is a statement of the setup function that raises.
SetupBody(f) ==
    CASE f = "empty" -> <<>>
      [] f = "level2D" ->
            << [op |-> "create.sprite", args |-> << [vx |-> 3, vy |-> 4] >>],
               [op |-> "onUpdate", fn |-> "update"],
               [op |-> "setData", key |-> "score", value |-> "0"] >>
      [] f = "fx2D" ->
            << [op |-> "create.sprite", args |-> << [id |-> "7"] >>],
               [op |-> "create.particles", count |-> 1, drawn |-> 0],
               [op |-> "camera.shake", intensity |-> 5, duration |-> 1] >>
      [] f = "broken2D" ->
            << [op |-> "create.sprite", args |-> << [id |-> "0"] >>],
               [op |-> "throw", error |-> "Error: boom"] >>
      [] f = "starter2D" ->
            << [op |-> "setData", key |-> "score", value |-> 0],
               [op |-> "setData", key |-> "gameOver", value |-> FALSE],
               [op |-> "setData", key |-> "obstacleSpeed", value |-> 100],
               [op |-> "setData", key |-> "obstacleSpawnRate", value |-> 0],
               [op |-> "setData", key |-> "timeSinceLastObstacle", value |-> 0],
               [op |-> "onUpdate", fn |-> "starter"] >>
      [] f = "level3D" ->
            << [op |-> "create.mesh", args |-> << [name |-> "player"] >>],
               [op |-> "create.light", args |-> << [type |-> "ambient"] >>],
               [op |-> "onUpdate", fn |-> "update"],
               [op |-> "setData", key |-> "score", value |-> "0"] >>
      [] f = "broken3D" ->
            << [op |-> "create.mesh", args |-> << [name |-> "player"] >>],
               [op |-> "create.light", args |-> << [type |-> "hemisphere"] >> ] >>

SetupFuncs ==
    IF workspaceType = "2D" THEN {"empty", "level2D", "fx2D", "broken2D", "starter2D"}
    ELSE {"empty", "level3D", "broken3D"}

\* the setup functions of the scene-lifecycle runs
GameSetups == {"level2D", "fx2D", "broken2D", "level3D", "broken3D"}

SceneNames == {"main", "gameOver"}

SpriteConfigs == { [vx |-> 3, vy |-> 4], [id |-> "7"], [id |-> "0"] }

DataValues == {"100"}

\* One statement of a setup function. create.sprite, create.mesh, create.light
\* and onUpdate are the instrumented functions.
Exec(E, o) ==
    CASE o.op = "create.sprite" ->
            instrument("Engine.create.sprite", createSprite(E, o.args), TRUE)
      [] o.op = "create.mesh" ->
            instrument("Engine.create.mesh", createMesh(E, o.args), TRUE)
      [] o.op = "create.light" ->
            instrument("Engine.create.light", createLight(E, o.args), TRUE)
      [] o.op = "create.particles" -> createParticles(E, o.count, o.drawn)
      [] o.op = "console.log" -> Returned(Log(E, "log", o.text), Undefined)
      [] o.op = "onUpdate" -> instrument("Engine.onUpdate", onUpdate(E, o.fn), FALSE)
      [] o.op = "setData" -> setData(E, o.key, o.value)
      [] o.op = "camera.shake" -> cameraShake(E, o.intensity, o.duration)
      [] o.op = "instance.destroy" ->
            LET held == {h \in E.handles : h.ref = o.ref}
            IN  IF held = {} THEN Threw(E, "TypeError")
                ELSE instanceDestroy(E, CHOOSE h \in held : TRUE)
      [] o.op = "throw" -> Threw(E, o.error)

\* scenes[name](): the statements in order, up to the first that raises
RECURSIVE RunSetup(_, _)
RunSetup(E, body) ==
    IF body = <<>> THEN Returned(E, Undefined)
    ELSE LET Rest(R) == IF R.threw THEN R ELSE RunSetup(R.E, Tail(body))
         IN  Rest(Exec(E, Head(body)))

\* scene.load that resets before it looks the name up
sceneLoadResetsFirst(E, name) ==
    IF name \in DOMAIN scenes
    THEN LET R == RunSetup(resetSceneState(E), SetupBody(scenes[name]))
         IN  IF R.threw THEN R
             ELSE Returned(Log(R.E, "log", "Scene loaded."), Undefined)
    ELSE Returned(Log(resetSceneState(E), "error", "Scene is not defined."), Undefined)

\* Engine.scene.load(name), before instrumentation
sceneLoad(E, name) ==
    IF name \in DOMAIN scenes
    THEN LET R == RunSetup(resetSceneState(E), SetupBody(scenes[name]))
         IN  IF R.threw THEN R
             ELSE Returned(Log(R.E, "log", "Scene loaded."), Undefined)
    ELSE Returned(Log(E, "error", "Scene is not defined."), Undefined)

\* ------------------------------------------------------- safety protocol

SceneUuid == "u0"

\* scene.getObjectByProperty('uuid', v): the scene itself, then its children;
\* the index in sceneChildren, 0 for none or for the scene itself
getObjectByUuid(E, v) ==
    LET Test(c) == c.uuid = v IN IF v = SceneUuid THEN 0 ELSE Find({i \in DOMAIN E.sceneChildren : Test(E.sceneChildren[i])})

\* quarantineAction without the `if (targetSprite)` / `if (targetMesh)` guard,
\* removing by index: a target that is not found removes the last object
quarantineActionUnguarded(E, incident) ==
    IF ~Truthy(incident.suspect) \/ incident.evidence = <<>>
    THEN Returned(Log(E, "warn", "Quarantine failed: Invalid incident data received."),
                  Undefined)
    ELSE
    LET context == incident.evidence[1]
        spriteId == IF "id" \in DOMAIN context THEN context.id ELSE Undefined
        Same(sp) == sp.id = spriteId
        target == IF Truthy(spriteId) THEN Find({i \in DOMAIN E.sprites : Same(E.sprites[i])}) ELSE 0
        acted ==
            IF workspaceType = "2D"
            THEN IF target = 0
                 THEN [E EXCEPT !.sprites = SubSeq(E.sprites, 1, Len(E.sprites) - 1)]
                 ELSE IF incident.suspect = "Velocity Check"
                 THEN [E EXCEPT !.sprites[target].vx = 0, !.sprites[target].vy = 0]
                 ELSE spriteDestroy(E, [ref |-> E.sprites[target].ref,
                                        id |-> E.sprites[target].id,
                                        kind |-> "sprite"]).E
            ELSE [E EXCEPT !.meshes = SubSeq(E.meshes, 1, Len(E.meshes) - 1)]
    IN  Returned(Log(acted, "log", "Quarantine Result"), Undefined)

\* quarantineAction(incident). incident.evidence is <<>> when the incident is
\* null or has no evidence.context, and <<context>> otherwise.
quarantineAction(E, incident) ==
    IF ~Truthy(incident.suspect) \/ incident.evidence = <<>>
    THEN Returned(Log(E, "warn", "Quarantine failed: Invalid incident data received."),
                  Undefined)
    ELSE
    LET context == incident.evidence[1]
        spriteId == IF "id" \in DOMAIN context THEN context.id ELSE Undefined
        Same(sp) == sp.id = spriteId
        target == IF Truthy(spriteId) THEN Find({i \in DOMAIN E.sprites : Same(E.sprites[i])}) ELSE 0
        targetSprite == E.sprites[target]
        meshUuid == IF "uuid" \in DOMAIN context THEN context.uuid ELSE Undefined
        targetMesh == IF Truthy(meshUuid) THEN getObjectByUuid(E, meshUuid) ELSE 0
        acted ==
            IF workspaceType = "2D"
            THEN IF target = 0 THEN E
                 ELSE IF incident.suspect = "Velocity Check"
                 THEN [E EXCEPT !.sprites[target].vx = 0, !.sprites[target].vy = 0]
                 ELSE spriteDestroy(E, [ref |-> targetSprite.ref, id |-> targetSprite.id,
                                        kind |-> "sprite"]).E
            ELSE IF targetMesh = 0 THEN E
                 ELSE destroy3D(E, << E.sceneChildren[targetMesh] >>).E
    IN  Returned(Log(acted, "log", "Quarantine Result"), Undefined)

\* ------------------------------------------------------------- actions
\* lastCall names the last call: op, the identity of the handle it was given
\* (0 for none), which case of the call it was, and whether it raised.

Call(op, ref, case, R) == [op |-> op, ref |-> ref, case |-> case, threw |-> R.threw]

\* The console override: every console call of the engine is also posted to
\* the host; the engine's messages are strings, which are posted as they are.
HostLog(entries) ==
    [i \in DOMAIN entries |-> [type |-> entries[i].level, message |-> entries[i].text]]

\* the engine after a call that leaves the frame loop and the timers alone
Done(R, call) ==
    /\ Commit(R.E)
    /\ lastCall' = call
    /\ hostLog' = HostLog(R.E.console)
    /\ UNCHANGED <<workspaceType, scenes, lastTime, loopRunning, frame,
                   _healthCheckIntervalId, intervals, inputVars, editorVars, simulated>>

\* a call that leaves the frame loop and the timers alone, in a run of at most
\* MaxRefs objects and MaxParticles particles
Do(R, call) ==
    /\ R.E.nextRef <= MaxRefs + 1
    /\ Len(R.E.particles) <= MaxParticles
    /\ Done(R, call)

\* Engine.scene.define(name, setupFunc)
SceneDefine(names, funcs) ==
    \E name \in names, f \in funcs \cap SetupFuncs :
        /\ scenes' = Spread(scenes, [n \in {name} |-> f])
        /\ lastCall' = [op |-> "scene.define", ref |-> 0, case |-> "", threw |-> FALSE]
        /\ console' = <<>>
        /\ UNCHANGED <<workspaceType, sprites, particles, onUpdateCallback, camera,
                       state, meshes, sceneChildren, cameraTarget, _incidents,
                       posted, nextRef, handles, lastSet, loadStart, reported,
                       inserted, lastTime, loopRunning, frame,
                       _healthCheckIntervalId, intervals, assetCache,
                       loadingAssets, images, background, inputVars, editorVars,
                       simulated>>
        /\ hostLog' = <<>>

\* The state a load of a defined scene starts from: what exists when the call
\* is made, with every particle and the registered callback marked as being
\* from before the load (objects are told apart by their ref and loadStart).
Aged(E) ==
    [E EXCEPT !.particles = [i \in DOMAIN E.particles |->
                                [E.particles[i] EXCEPT !.stale = TRUE]],
              !.onUpdateCallback.stale = TRUE]

\* Engine.scene.load(name), instrumented
SceneLoad(names) ==
    \E name \in names :
        LET E0 == IF name \in DOMAIN scenes THEN Aged(Cur) ELSE Cur
            R == instrument("Engine.scene.load", sceneLoad(E0, name), TRUE)
        IN  /\ Do(R, Call("scene.load", 0,
                          IF name \in DOMAIN scenes THEN "defined" ELSE "undefined", R))
            /\ loadStart' = IF name \in DOMAIN scenes THEN nextRef ELSE loadStart

\* Engine.create.sprite(config), instrumented
CreateSprite(configs) ==
    /\ workspaceType = "2D"
    /\ \E config \in configs :
            LET R == instrument("Engine.create.sprite", createSprite(Cur, <<config>>), TRUE)
            IN  Do(R, Call("create.sprite", 0, "config", R))
    /\ UNCHANGED loadStart

CreateParticles ==
    /\ workspaceType = "2D"
    /\ LET R == createParticles(Cur, 1, 0) IN Do(R, Call("create.particles", 0, "one", R))
    /\ UNCHANGED loadStart

\* Engine.create.mesh(config), instrumented
CreateMesh ==
    /\ workspaceType = "3D"
    /\ LET R == instrument("Engine.create.mesh",
                           createMesh(Cur, << [name |-> "enemy"] >>), TRUE)
       IN  Do(R, Call("create.mesh", 0, "config", R))
    /\ UNCHANGED loadStart

\* Engine.create.light(config), instrumented
CreateLight ==
    /\ workspaceType = "3D"
    /\ LET R == instrument("Engine.create.light",
                           createLight(Cur, << [type |-> "ambient"] >>), TRUE)
       IN  Do(R, Call("create.light", 0, "ambient", R))
    /\ UNCHANGED loadStart

\* Engine.onUpdate(callback), instrumented
OnUpdate ==
    /\ LET R == instrument("Engine.onUpdate", onUpdate(Cur, "update"), FALSE)
       IN  Do(R, Call("onUpdate", 0, "update", R))
    /\ UNCHANGED loadStart

SetData ==
    /\ \E value \in DataValues :
            LET R == setData(Cur, "score", value) IN Do(R, Call("setData", 0, value, R))
    /\ UNCHANGED loadStart

\* whether the object of a handle is in the live registry
Live(h) ==
    \/ \E i \in DOMAIN sprites : sprites[i].ref = h.ref
    \/ \E i \in DOMAIN meshes : meshes[i].ref = h.ref

DestroyCase(op, h) ==
    IF lastCall.op = op /\ lastCall.ref = h.ref THEN "again"
    ELSE IF Live(h) THEN "live" ELSE "gone"

\* handle.destroy()
InstanceDestroy ==
    /\ \E h \in handles :
            /\ h.kind \in {"sprite", "mesh"}
            /\ LET R == instanceDestroy(Cur, h)
               IN  Do(R, Call("destroy", h.ref, DestroyCase("destroy", h), R))
    /\ UNCHANGED loadStart

\* Engine.destroy(x), x a handle or nothing
EngineDestroy ==
    /\ \/ \E h \in handles :
                LET R == engineDestroy(Cur, <<h>>)
                IN  Do(R, Call("Engine.destroy", h.ref, DestroyCase("Engine.destroy", h), R))
       \/ LET R == engineDestroy(Cur, <<>>)
          IN  Do(R, Call("Engine.destroy", 0, "undefined", R))
    /\ UNCHANGED loadStart

Suspects == {"Data Integrity Check", "Position Check", "Velocity Check", "Asset Check", ""}

\* ids and uuids a quarantine-incident may carry: those of objects created so
\* far (live or not) and one no object ever had
KnownIds == {h.id : h \in handles} \cup {"404"}

Contexts ==
    IF workspaceType = "2D"
    THEN {[id |-> i] : i \in KnownIds} \cup {[x |-> 0]}
    ELSE {[uuid |-> u] : u \in KnownIds \cup {SceneUuid}} \cup {[x |-> 0]}

Incidents ==
    {[suspect |-> su, evidence |-> ev] :
        su \in Suspects, ev \in {<<>>} \cup {<<c>> : c \in Contexts}}

\* the id or uuid an incident's context carries, undefined when it has none
ContextId(incident) ==
    IF incident.evidence = <<>> THEN Undefined
    ELSE LET context == incident.evidence[1]
         IN  IF workspaceType = "2D"
             THEN IF "id" \in DOMAIN context THEN context.id ELSE Undefined
             ELSE IF "uuid" \in DOMAIN context THEN context.uuid ELSE Undefined

\* the registry objects whose id (2D) or uuid (3D) is the one the incident names
Matches(E, incident) ==
    IF workspaceType = "2D"
    THEN {i \in DOMAIN E.sprites : E.sprites[i].id = ContextId(incident)}
    ELSE {i \in DOMAIN E.meshes : E.meshes[i].uuid = ContextId(incident)}

\* The incidents the host sends in a run: one suspect per outcome of the
\* switch (the destroying cases leave the same state, 'Velocity Check' the
\* other one) with every evidence, and one incident without a suspect.
HostIncidents ==
    {i \in Incidents : i.suspect \in {"Data Integrity Check", "Velocity Check"}}
        \cup {[suspect |-> "", evidence |-> <<>>]}

\* the message listener of the safety protocol, on a quarantine-incident
QuarantineIncident ==
    /\ \E incident \in HostIncidents :
            LET R == quarantineAction(Cur, incident)
            IN  Do(R, Call("quarantine", 0,
                           IF Matches(Cur, incident) = {} THEN "no match"
                           ELSE "match", R))
    /\ UNCHANGED loadStart

\* Before a simulation: the sprite is at rest and no step was made.
NoSimulation ==
    [at60 |-> [vx |-> [c |-> 0, k |-> 0], vy |-> [c |-> 0, k |-> 0], steps |-> 0],
     at30 |-> [vx |-> [c |-> 0, k |-> 0], vy |-> [c |-> 0, k |-> 0], steps |-> 0]]

\* Before the first frame: no frame started or rendered, no callback raised.
NoFrame ==
    [count |-> 0, rendered |-> 0, deltaTime |-> 0, events |-> <<>>, frozen |-> FALSE]

\* The scene registry the scene manager module declares: no scene is defined
\* until game code calls Engine.scene.define.
sceneManager == <<>>

Init ==
    /\ workspaceType \in {"2D", "3D"}
    /\ scenes = sceneManager
    /\ sprites = <<>>
    /\ particles = <<>>
    /\ onUpdateCallback = NoopCallback
    /\ camera = [x |-> 0, y |-> 0, shakeIntensity |-> 0, shakeDuration |-> 0]
    /\ state = <<>>
    /\ meshes = <<>>
    /\ sceneChildren = <<>>
    /\ cameraTarget = {}
    /\ _incidents = <<>>
    /\ posted = <<>>
    /\ nextRef = 1
    /\ console = <<>>
    /\ handles = {}
    /\ lastSet = <<>>
    /\ loadStart = 0
    /\ reported = {}
    /\ inserted = <<>>
    /\ lastCall = [op |-> "init", ref |-> 0, case |-> "", threw |-> FALSE]
    /\ lastTime = 0
    /\ loopRunning = TRUE
    /\ frame = NoFrame
    /\ _healthCheckIntervalId = 1
    /\ intervals = {[id |-> 1, customCheck |-> "healthCheck"]}
    /\ hostLog = <<>>
    /\ assetCache = {}
    /\ loadingAssets = {}
    /\ images = <<>>
    /\ keysPressed = {}
    /\ keysJustPressed = {}
    /\ isInspectMode = FALSE
    /\ mousePos = [x |-> 0, y |-> 0]
    /\ hoveredSprite = <<>>
    /\ hoveredMesh = <<>>
    /\ boxHelper = <<>>
    /\ selects = <<>>
    /\ background = [url |-> Null, scrollSpeedX |-> 0, scrollSpeedY |-> 0]
    /\ simulated = NoSimulation

\* Scene lifecycle: game code defines and loads scenes, creates and destroys
\* objects, registers the update callback and stores data.
Next ==
    \/ SceneDefine({"main"}, GameSetups)
    \/ SceneLoad(SceneNames)
    \/ CreateSprite({[vx |-> 3, vy |-> 4]})
    \/ CreateParticles
    \/ CreateMesh
    \/ CreateLight
    \/ OnUpdate
    \/ SetData
    \/ InstanceDestroy

Spec == Init /\ [][Next]_vars

\* Registry membership: objects are created (with ids of the caller's choice),
\* destroyed through their handle or Engine.destroy, dropped by a scene load,
\* and quarantined on the host's request.
NextRegistry ==
    \/ SceneDefine({"main"}, {"empty"})
    \/ SceneLoad({"main"})
    \/ CreateSprite(SpriteConfigs)
    \/ CreateMesh
    \/ CreateLight
    \/ InstanceDestroy
    \/ EngineDestroy
    \/ QuarantineIncident

SpecRegistry == Init /\ [][NextRegistry]_vars

\* ------------------------------------------------------ debugger runs

ThreatLevels == {"trusted", "untrusted"}

\* suspects and messages that callers of reportIncident pass; "Asset" with
\* " Check: a.png" and "Asset Check" with ": a.png" concatenate to the same text
ReportSuspects == {"Asset", "Asset Check"}
ReportMessages == {" Check: a.png", ": a.png"}

Triples == ThreatLevels \X ReportSuspects \X ReportMessages

\* window.LeapGuard.reportIncident(threatLevel, suspect, message, context)
ReportIncident ==
    /\ \E t \in Triples, cloneable \in BOOLEAN :
            LET R == reportIncident(Cur, t[1], t[2], t[3], [cloneable |-> cloneable])
            IN  /\ Cardinality(R.E.reported) <= MaxReports
                /\ Do(R, Call("reportIncident", 0,
                              IF t \in reported THEN "again" ELSE "first", R))
    /\ UNCHANGED loadStart

\* what a function does when called: it returns a value or raises an error
Outcomes(E) == {Returned(E, "42"), Threw(E, "Error: boom")}

\* a call of instrument(functionName, originalFn): originalFn is any function
\* that leaves the engine alone, args may or may not survive a structured clone
CallInstrumented ==
    /\ \E fn \in Outcomes(Cur), argsCloneable \in BOOLEAN :
            LET R == instrument("f", fn, argsCloneable)
            IN  /\ Cardinality(R.E.reported) <= MaxReports
                /\ Do(R, Call("instrumented", 0,
                              IF fn.threw THEN "raises" ELSE "returns", R))
    /\ UNCHANGED loadStart

InitDebugger == Init /\ workspaceType = "2D"

NextDebugger ==
    \/ ReportIncident
    \/ CallInstrumented

SpecDebugger == InitDebugger /\ [][NextDebugger]_vars

\* The capacity run: incident n is ("trusted", "Health Check", "object n").
NthTriple(n) == <<"trusted", "Health Check", "object " \o ToString(n)>>

\* a health check reports an incident it has not reported before
ReportNew ==
    /\ Cardinality(reported) < MaxIncidents + MaxOverflow
    /\ Len(posted) < MaxIncidents + 2 * MaxOverflow
    /\ LET t == NthTriple(Cardinality(reported) + 1)
           R == reportIncident(Cur, t[1], t[2], t[3], [cloneable |-> TRUE])
       IN  Do(R, Call("reportIncident", 0, "first", R))
    /\ UNCHANGED loadStart

\* a health check reports again one of the first two or of the last two
\* incidents it has reported
ReportAgain ==
    /\ Len(posted) < MaxIncidents + 2 * MaxOverflow
    /\ \E n \in {1, 2, Cardinality(reported) - 1, Cardinality(reported)} :
            /\ NthTriple(n) \in reported
            /\ LET t == NthTriple(n)
                   R == reportIncident(Cur, t[1], t[2], t[3], [cloneable |-> TRUE])
               IN  Do(R, Call("reportIncident", n, "again", R))
    /\ UNCHANGED loadStart

NextDedup ==
    \/ ReportNew
    \/ ReportAgain

SpecDedup == InitDebugger /\ [][NextDedup]_vars

\* ------------------------------------------------------------ frame loop
\* Numbers. Every quantity of a frame is a whole number: timestamps are whole
\* seconds (in ms), velocities whole px/s, sizes even. NaN is the one value
\* that is not a number; it is written as a value no computation reaches.
NaN == -999999

IsNaN(v) == v = NaN

Add(a, b) == IF IsNaN(a) \/ IsNaN(b) THEN NaN ELSE a + b

Mul(a, b) == IF IsNaN(a) \/ IsNaN(b) THEN NaN ELSE a * b

\* v || 0
OrZero(v) == IF IsNaN(v) THEN 0 ELSE v

\* Math.max, Math.min: NaN when an argument is NaN
MathMax(a, b) == IF IsNaN(a) \/ IsNaN(b) THEN NaN ELSE IF a >= b THEN a ELSE b

MathMin(a, b) == IF IsNaN(a) \/ IsNaN(b) THEN NaN ELSE IF a <= b THEN a ELSE b

\* Math.pow(base, exponent) for a whole exponent >= 0; Math.pow(x, 0) is 1
RECURSIVE MathPow(_, _)
MathPow(base, exponent) ==
    IF exponent = 0 THEN 1
    ELSE IF exponent % 2 = 0 THEN MathPow(base * base, exponent \div 2)
    ELSE base * MathPow(base * base, exponent \div 2)

\* Engine2D.ts: const VIRTUAL_WIDTH = 1280; const VIRTUAL_HEIGHT = 720
VIRTUAL_WIDTH == 1280
VIRTUAL_HEIGHT == 720

\* the clamping of one coordinate: Math.max(half, Math.min(extent - half, v))
Clamp(v, size, extent) == MathMax(size \div 2, MathMin(extent - size \div 2, v))

\* a physics step that moves the sprite by the velocity it had before the step
physicsStepPositionFirst(s, deltaTime) ==
    LET dragFactor == MathPow(1 - OrZero(s.drag), deltaTime * 60)
        x == Add(s.x, Mul(s.vx, deltaTime))
        y == Add(s.y, Mul(s.vy, deltaTime))
    IN  [s EXCEPT !.vx = Mul(Add(s.vx, Mul(OrZero(s.ax), deltaTime)), dragFactor),
                  !.vy = Mul(Add(s.vy, Mul(OrZero(s.ay), deltaTime)), dragFactor),
                  !.x = IF s.clampToScreen THEN Clamp(x, s.width, VIRTUAL_WIDTH) ELSE x,
                  !.y = IF s.clampToScreen THEN Clamp(y, s.height, VIRTUAL_HEIGHT) ELSE y]

\* gameLoop, the body of sprites.forEach: one sprite's physics and movement
physicsStep(s, deltaTime) ==
    LET dragFactor == MathPow(1 - OrZero(s.drag), deltaTime * 60)
        vx == Mul(Add(s.vx, Mul(OrZero(s.ax), deltaTime)), dragFactor)
        vy == Mul(Add(s.vy, Mul(OrZero(s.ay), deltaTime)), dragFactor)
        x == Add(s.x, Mul(vx, deltaTime))
        y == Add(s.y, Mul(vy, deltaTime))
    IN  [s EXCEPT !.vx = vx, !.vy = vy,
                  !.x = IF s.clampToScreen THEN Clamp(x, s.width, VIRTUAL_WIDTH) ELSE x,
                  !.y = IF s.clampToScreen THEN Clamp(y, s.height, VIRTUAL_HEIGHT) ELSE y]

\* gameLoop, particle update: the particles with life left, moved and aged
particleUpdate(ps, deltaTime) ==
    LET Alive(p) == p.life > 0
        alive == SelectSeq(ps, Alive)
    IN  [i \in DOMAIN alive |->
            [alive[i] EXCEPT !.x = @ + alive[i].vx * deltaTime,
                             !.y = @ + alive[i].vy * deltaTime,
                             !.life = @ - deltaTime]]

\* drawing that resets the intensity but leaves the duration as it is
drawKeepsDuration(E, deltaTime) ==
    IF E.camera.shakeDuration > 0
    THEN [E EXCEPT !.camera.shakeIntensity =
                        IF E.camera.shakeDuration - deltaTime <= 0 THEN 0 ELSE @]
    ELSE E

\* gameLoop, drawing: the one part of it that changes the engine's state is
\* the camera shake running down
draw(E, deltaTime) ==
    IF E.camera.shakeDuration > 0
    THEN LET left == E.camera.shakeDuration - deltaTime
         IN  [E EXCEPT !.camera.shakeDuration = left,
                       !.camera.shakeIntensity = IF left <= 0 THEN 0 ELSE @]
    ELSE E

\* The update callbacks game code registers: "update" makes no engine call,
\* "crash" raises, "badCreate" calls an instrumented engine function that
\* raises (create.sprite without a config; create.light of type hemisphere),
\* "f" and "g" log their name, and f also stores that it ran, "cleanup" calls
\* destroy() on the first object game code created (a TypeError when its
\* variable holds none).
CallbackBody(fn) ==
    CASE fn = "noop" -> <<>>
      [] fn = "update" -> <<>>
      [] fn = "f" -> << [op |-> "console.log", text |-> "f"],
                        [op |-> "setData", key |-> "f", value |-> "ran"] >>
      [] fn = "g" -> << [op |-> "console.log", text |-> "g"] >>
      [] fn = "cleanup" -> << [op |-> "instance.destroy", ref |-> 1] >>
      [] fn = "crash" -> << [op |-> "throw", error |-> "Error: boom"] >>
      [] fn = "badCreate" ->
            IF workspaceType = "2D"
            THEN << [op |-> "create.sprite", args |-> <<>>] >>
            ELSE << [op |-> "create.light", args |-> << [type |-> "hemisphere"] >>] >>

Callbacks == {"update", "crash", "badCreate"}

\* the loop's own state, as one value
Loop ==
    [lastTime |-> lastTime, loopRunning |-> loopRunning, frame |-> frame,
     keysJustPressed |-> keysJustPressed, isInspectMode |-> isInspectMode,
     mousePos |-> mousePos, hoveredSprite |-> hoveredSprite,
     hoveredMesh |-> hoveredMesh, boxHelper |-> boxHelper]

FrameEvent(ev, ref) == [ev |-> ev, ref |-> ref]

\* what a frame did, recorded: the frame counters and the frame's events
Recorded(L, deltaTime, events, rendered) ==
    [count |-> L.frame.count + 1,
     rendered |-> L.frame.rendered + (IF rendered THEN 1 ELSE 0),
     deltaTime |-> deltaTime, events |-> events,
     frozen |-> L.frame.frozen \/ ~rendered]

\* a frame that requests the next frame even when the callback raised
frameDoneRearms(C, L, timestamp, deltaTime, events) ==
    [E |-> C.E, threw |-> C.threw, error |-> C.error,
     L |-> [L EXCEPT !.lastTime = timestamp, !.loopRunning = TRUE,
                     !.frame = Recorded(L, deltaTime,
                                        IF C.threw THEN events
                                        ELSE Append(events, FrameEvent("render", 0)),
                                        ~C.threw)]]

\* a frame that ended: by returning, with the next frame requested, or by the
\* callback's exception, which leaves the loop before it requests a frame
FrameDone(C, L, timestamp, deltaTime, events) ==
    IF C.threw
    THEN [E |-> C.E, threw |-> TRUE, error |-> C.error,
          L |-> [L EXCEPT !.lastTime = timestamp, !.loopRunning = FALSE,
                          !.frame = Recorded(L, deltaTime, events, FALSE)]]
    ELSE [E |-> C.E, threw |-> FALSE, error |-> "none",
          L |-> [L EXCEPT !.lastTime = timestamp, !.loopRunning = TRUE,
                          !.frame = Recorded(L, deltaTime,
                                             Append(events, FrameEvent("render", 0)),
                                             TRUE)]]

\* a missing argument (undefined / null) of a collision check
Missing(s) == DOMAIN s = {}

NoSprite == <<>>

\* a < b on numbers: false when either is NaN
Less(a, b) == ~IsNaN(a) /\ ~IsNaN(b) /\ a < b

\* twice (c - size / 2) and twice (c + size / 2): the bounds of a center-based
\* box in half units, so that size / 2 of an odd size stays whole
Low2(c, size) == Add(Mul(2, c), Mul(-1, size))

High2(c, size) == Add(Mul(2, c), size)

\* -------------------------------------------------------- collision checks

\* checkCollision that takes an edge in common for an overlap
checkCollisionInclusive(spriteA, spriteB) ==
    IF Missing(spriteA) \/ Missing(spriteB) THEN FALSE
    ELSE /\ ~Less(High2(spriteB.x, spriteB.width), Low2(spriteA.x, spriteA.width))
         /\ ~Less(High2(spriteA.x, spriteA.width), Low2(spriteB.x, spriteB.width))
         /\ ~Less(High2(spriteB.y, spriteB.height), Low2(spriteA.y, spriteA.height))
         /\ ~Less(High2(spriteA.y, spriteA.height), Low2(spriteB.y, spriteB.height))

\* checkCollision that reads spriteB's x and y as its top-left corner
checkCollisionTopLeft(spriteA, spriteB) ==
    IF Missing(spriteA) \/ Missing(spriteB) THEN FALSE
    ELSE /\ Less(Low2(spriteA.x, spriteA.width), Add(Mul(2, spriteB.x), Mul(2, spriteB.width)))
         /\ Less(Mul(2, spriteB.x), High2(spriteA.x, spriteA.width))
         /\ Less(Low2(spriteA.y, spriteA.height), Add(Mul(2, spriteB.y), Mul(2, spriteB.height)))
         /\ Less(Mul(2, spriteB.y), High2(spriteA.y, spriteA.height))

\* physics.checkCollision(spriteA, spriteB)
checkCollision(spriteA, spriteB) ==
    IF Missing(spriteA) \/ Missing(spriteB) THEN FALSE
    ELSE LET a_left == Low2(spriteA.x, spriteA.width)
             a_right == High2(spriteA.x, spriteA.width)
             a_top == Low2(spriteA.y, spriteA.height)
             a_bottom == High2(spriteA.y, spriteA.height)
             b_left == Low2(spriteB.x, spriteB.width)
             b_right == High2(spriteB.x, spriteB.width)
             b_top == Low2(spriteB.y, spriteB.height)
             b_bottom == High2(spriteB.y, spriteB.height)
         IN  /\ Less(a_left, b_right) /\ Less(b_left, a_right)
             /\ Less(a_top, b_bottom) /\ Less(b_top, a_bottom)

\* twice sprite.radius || (Math.min(sprite.width, sprite.height) / 2)
Radius2(sprite) ==
    IF "radius" \in DOMAIN sprite /\ sprite.radius # 0 /\ ~IsNaN(sprite.radius)
    THEN Mul(2, sprite.radius)
    ELSE MathMin(sprite.width, sprite.height)

\* the square of twice the distance of the centers
Distance2Squared(spriteA, spriteB) ==
    LET dx == Add(spriteA.x, Mul(-1, spriteB.x))
        dy == Add(spriteA.y, Mul(-1, spriteB.y))
    IN  Mul(4, Add(Mul(dx, dx), Mul(dy, dy)))

\* physics.checkCircularCollision(spriteA, spriteB): distance < radiusA +
\* radiusB, with both sides doubled and squared (the distance is >= 0)
checkCircularCollision(spriteA, spriteB) ==
    IF Missing(spriteA) \/ Missing(spriteB) THEN FALSE
    ELSE LET radii == Add(Radius2(spriteA), Radius2(spriteB))
         IN  /\ Less(0, radii)
             /\ Less(Distance2Squared(spriteA, spriteB), Mul(radii, radii))

\* physics.getCollisions(sprite, useCircular): sprites.filter(...), a new array
getCollisions(E, sprite, useCircular) ==
    LET Hit(other) == /\ sprite.ref # other.ref
                      /\ IF useCircular THEN checkCircularCollision(sprite, other)
                         ELSE checkCollision(sprite, other)
    IN  Returned(E, SelectSeq(E.sprites, Hit))

\* ------------------------------------------------------------ starter game

\* The update callback of the starter 2D game's main scene, its section
\* "Bullets vs Obstacles". Times under a second are rounded up to whole
\* seconds (the camera shake of 0.15 s ends within the next whole-second
\* frame either way) and the particles' drawn life of under 0.8 s is 0.
\* 'obstacleSpawnRate' holds the number k of reductions, for the value
\* Math.max(0.2, 1.2 * 0.985^k).

HandleOf(s) == [ref |-> s.ref, id |-> s.id, kind |-> "sprite"]

\* the body of the inner loop when checkCollision(bullet, obstacle) holds
bulletHitsObstacle(E, bullet, obstacle) ==
    LET E1 == createParticles(E, 25, 0).E
        E2 == cameraShake(E1, 10, 1).E
        E3 == spriteDestroy(E2, HandleOf(bullet)).E
        E4 == spriteDestroy(E3, HandleOf(obstacle)).E
        E5 == setData(E4, "score", Add(getData(E4, "score"), 100)).E
        E6 == setData(E5, "obstacleSpeed", Add(getData(E5, "obstacleSpeed"), 5)).E
    IN  setData(E6, "obstacleSpawnRate", getData(E6, "obstacleSpawnRate") + 1).E

\* obstacles.forEach(obstacle => ...) for one bullet, from index j on
RECURSIVE obstaclesForEach(_, _, _, _)
obstaclesForEach(E, bullet, obstacles, j) ==
    IF j > Len(obstacles) THEN E
    ELSE obstaclesForEach(IF checkCollision(bullet, obstacles[j])
                          THEN bulletHitsObstacle(E, bullet, obstacles[j]) ELSE E,
                          bullet, obstacles, j + 1)

\* bullets.forEach(bullet => ...), from index i on
RECURSIVE bulletsForEach(_, _, _, _)
bulletsForEach(E, bullets, obstacles, i) ==
    IF i > Len(bullets) THEN E
    ELSE LET E1 == obstaclesForEach(E, bullets[i], obstacles, 1)
             E2 == IF Less(bullets[i].y, -50)
                   THEN spriteDestroy(E1, HandleOf(bullets[i])).E ELSE E1
         IN  bulletsForEach(E2, bullets, obstacles, i + 1)

\* Collision Detection & Updates: the two arrays are filtered from the
\* registry once, before the loops
bulletsVsObstacles(E) ==
    LET allSprites == E.sprites
        bullets == SelectSeq(allSprites, LAMBDA s : s.name = "bullet")
        obstacles == SelectSeq(allSprites, LAMBDA s : s.name = "obstacle")
    IN  Returned(bulletsForEach(E, bullets, obstacles, 1), Undefined)

\* onUpdateCallback(deltaTime)
callback(E, deltaTime) ==
    IF E.onUpdateCallback.fn = "starter" THEN bulletsVsObstacles(E)
    ELSE RunSetup(E, CallbackBody(E.onUpdateCallback.fn))

\* ------------------------------------------------- input and visual editor

\* inputManager, keydown listener
keydown(K, code) ==
    [keysPressed |-> K.keysPressed \cup {code},
     keysJustPressed |-> IF code \notin K.keysPressed
                         THEN K.keysJustPressed \cup {code} ELSE K.keysJustPressed]

\* inputManager, keyup listener
keyup(K, code) == [K EXCEPT !.keysPressed = @ \ {code}]

\* clearJustPressed()
clearJustPressed(L) == [L EXCEPT !.keysJustPressed = {}]

\* Engine.input.isKeyJustPressed(key)
isKeyJustPressed(L, key) == key \in L.keysJustPressed

\* The 2D inspector's hit test: the canvas has the virtual size, so scale is 1
\* and the offsets are 0; the sprites are boxes (none is a UI text). The
\* top-most sprite whose bounds hold the mouse, null (<<>>) for none.
foundSprite(E, L) ==
    LET Holds(s) == /\ ~Less(Mul(2, L.mousePos.x), Low2(s.x, s.width))
                    /\ ~Less(High2(s.x, s.width), Mul(2, L.mousePos.x))
                    /\ ~Less(Mul(2, L.mousePos.y), Low2(s.y, s.height))
                    /\ ~Less(High2(s.y, s.height), Mul(2, L.mousePos.y))
                    /\ ~IsNaN(s.x) /\ ~IsNaN(s.y)
        hits == {i \in DOMAIN E.sprites : Holds(E.sprites[i])}
    IN  IF hits = {} THEN NoSprite
        ELSE E.sprites[CHOOSE i \in hits : \A j \in hits : j <= i]

\* gameLoop, Editor/Inspector Logic
inspect2D(E, L) ==
    IF L.isInspectMode THEN [L EXCEPT !.hoveredSprite = foundSprite(E, L)] ELSE L

\* new THREE.BoxHelper(mesh, 0x00ffff), as a child of the scene
BoxHelper(mesh) == [ref |-> 0, uuid |-> "helper", kind |-> "helper", name |-> "",
                    object |-> mesh.ref]

\* raycaster.intersectObjects(meshes): in the runs mesh r is drawn at screen
\* column r and nowhere else, and the mouse is on one column
intersectObjects(ms, mouse) ==
    LET Hit(m) == m.ref = mouse.x IN SelectSeq(ms, Hit)

\* animate, the inspector part: the engine state and the loop state after it
inspect3D(E, L) ==
    IF ~L.isInspectMode THEN [E |-> E, L |-> L]
    ELSE LET intersects == intersectObjects(E.meshes, L.mousePos)
             removed == IF Missing(L.boxHelper) THEN E.sceneChildren
                        ELSE sceneRemove(E.sceneChildren, L.boxHelper)
         IN  IF intersects # <<>>
             THEN IF Missing(L.hoveredMesh) \/ L.hoveredMesh.ref # intersects[1].ref
                  THEN [E |-> [E EXCEPT !.sceneChildren =
                                    Append(removed, BoxHelper(intersects[1]))],
                        L |-> [L EXCEPT !.hoveredMesh = intersects[1],
                                        !.boxHelper = BoxHelper(intersects[1])]]
                  ELSE [E |-> E, L |-> L]
             ELSE [E |-> [E EXCEPT !.sceneChildren = removed],
                   L |-> [L EXCEPT !.hoveredMesh = NoSprite, !.boxHelper = NoSprite]]

\* the visual editor's state, as one value
Editor ==
    [isInspectMode |-> isInspectMode, mousePos |-> mousePos,
     hoveredSprite |-> hoveredSprite, hoveredMesh |-> hoveredMesh,
     boxHelper |-> boxHelper, selects |-> selects]

\* name || fallback
NameOr(name, fallback) == IF name = "" THEN fallback ELSE name

\* the canvas's click listener
click(V) ==
    IF workspaceType = "2D"
    THEN IF V.isInspectMode /\ ~Missing(V.hoveredSprite)
         THEN [V EXCEPT !.selects =
                    Append(@, [id |-> V.hoveredSprite.id,
                               name |-> NameOr(V.hoveredSprite.name, "Unnamed Object")])]
         ELSE V
    ELSE IF V.isInspectMode /\ ~Missing(V.hoveredMesh)
         THEN [V EXCEPT !.selects =
                    Append(@, [id |-> V.hoveredMesh.uuid,
                               name |-> NameOr(V.hoveredMesh.name, "Unnamed Mesh")])]
         ELSE V

\* a message listener that leaves the hovered object when inspect mode goes off
onMessageKeepsHover(E, V, data) ==
    IF data.type = "visual-editor-toggle"
    THEN [E |-> E, V |-> [V EXCEPT !.isInspectMode = data.payload.enabled]]
    ELSE [E |-> E, V |-> V]

\* the window's message listener of the visual editor
onMessage(E, V, data) ==
    IF data.type # "visual-editor-toggle" THEN [E |-> E, V |-> V]
    ELSE IF workspaceType = "2D"
    THEN [E |-> E,
          V |-> [V EXCEPT !.isInspectMode = data.payload.enabled,
                          !.hoveredSprite = IF data.payload.enabled THEN @ ELSE NoSprite]]
    ELSE IF ~data.payload.enabled /\ ~Missing(V.boxHelper)
    THEN [E |-> [E EXCEPT !.sceneChildren = sceneRemove(@, V.boxHelper)],
          V |-> [V EXCEPT !.isInspectMode = FALSE, !.boxHelper = NoSprite,
                          !.hoveredMesh = NoSprite]]
    ELSE [E |-> E, V |-> [V EXCEPT !.isInspectMode = data.payload.enabled]]

\* a 2D frame that calls the callback before the physics step
gameLoopCallbackFirst(E, L, timestamp) ==
    LET deltaTime == (timestamp - L.lastTime) \div 1000
        moved(C) == [i \in DOMAIN C.E.sprites |-> physicsStep(C.E.sprites[i], deltaTime)]
        events(C) == <<FrameEvent("callback", 0)>> \o
                     [i \in DOMAIN C.E.sprites |-> FrameEvent("physics", C.E.sprites[i].ref)]
        Stepped(C) ==
            FrameDone([C EXCEPT !.E = draw([C.E EXCEPT !.sprites = moved(C)], deltaTime)],
                      L, timestamp, deltaTime, events(C))
    IN  Stepped(callback(E, deltaTime))

\* gameLoop(timestamp) of the 2D renderer. deltaTime is in seconds.
gameLoop(E, L, timestamp) ==
    LET deltaTime == (timestamp - L.lastTime) \div 1000
        moved == [i \in DOMAIN E.sprites |-> physicsStep(E.sprites[i], deltaTime)]
        physics == [i \in DOMAIN E.sprites |-> FrameEvent("physics", E.sprites[i].ref)]
        L1 == inspect2D([E EXCEPT !.sprites = moved], L)
        E1 == [E EXCEPT !.sprites = moved,
                        !.particles = particleUpdate(E.particles, deltaTime)]
        Drawn(C) == IF C.threw THEN C ELSE [C EXCEPT !.E = draw(C.E, deltaTime)]
        Cleared(F) == IF F.threw THEN F ELSE [F EXCEPT !.L = clearJustPressed(F.L)]
    IN  Cleared(FrameDone(Drawn(callback(E1, deltaTime)), L1, timestamp, deltaTime,
                          Append(physics, FrameEvent("callback", 0))))

\* animate() of the 3D renderer, called by the animation loop of the WebGL
\* renderer, which requests the next frame after animate has returned.
\* deltaTime is clock.getDelta().
animate(E, L, deltaTime) ==
    LET Inspected(C, I) ==
            IF C.threw THEN FrameDone(C, L, L.lastTime, deltaTime, <<FrameEvent("callback", 0)>>)
            ELSE FrameDone([C EXCEPT !.E = I.E], I.L, L.lastTime, deltaTime,
                           <<FrameEvent("callback", 0)>>)
        Called(C) == Inspected(C, inspect3D(C.E, L))
    IN  Called(callback(E, deltaTime))

\* ms between two animation-frame timestamps (and from the time origin to
\* the first): rAF timestamps never decrease
FrameDeltas == {0, 1000}

\* clock.getDelta(), in seconds: 0 on the first call, which starts the clock
ClockDeltas == IF frame.count = 0 THEN {0} ELSE {0, 1}

\* the configs of the sprites of the frame runs: accelerating without drag;
\* clamped, off-screen and fast, with full drag; clamped with a NaN velocity
FrameConfigs ==
    { [vx |-> 3, vy |-> 4, ax |-> 2],
      [clampToScreen |-> TRUE, x |-> -1000, width |-> 50, vx |-> 2000, drag |-> 1],
      [clampToScreen |-> TRUE, vx |-> NaN] }

\* Engine.create.sprite(config) in the frame runs
CreateFrameSprite ==
    /\ Len(sprites) < MaxSprites
    /\ CreateSprite(FrameConfigs)

\* a frame ends: its effects, and an exception that leaves it reaches the
\* window's error event, which the console override posts to the host
DoFrame(R, call) ==
    /\ R.E.nextRef <= MaxRefs + 1
    /\ Commit(R.E)
    /\ lastTime' = R.L.lastTime
    /\ loopRunning' = R.L.loopRunning
    /\ frame' = R.L.frame
    /\ keysJustPressed' = R.L.keysJustPressed
    /\ hoveredSprite' = R.L.hoveredSprite
    /\ hoveredMesh' = R.L.hoveredMesh
    /\ boxHelper' = R.L.boxHelper
    /\ lastCall' = call
    /\ hostLog' = HostLog(R.E.console) \o
                  (IF R.threw THEN << [type |-> "error", message |-> R.error] >> ELSE <<>>)
    /\ UNCHANGED <<workspaceType, scenes, loadStart, _healthCheckIntervalId, intervals,
                   keysPressed, isInspectMode, mousePos, selects, simulated>>

\* Engine.onUpdate(callback), instrumented, for the callbacks of the frame runs
OnUpdateCallback(fns) ==
    /\ \E fn \in fns :
            LET R == instrument("Engine.onUpdate", onUpdate(Cur, fn), FALSE)
            IN  Do(R, Call("onUpdate", 0, fn, R))
    /\ UNCHANGED loadStart

\* the browser runs a requested animation frame of the 2D loop
GameLoop ==
    /\ workspaceType = "2D"
    /\ loopRunning
    /\ frame.count < MaxFrames
    /\ \E d \in FrameDeltas :
            \E R \in {gameLoop(Cur, Loop, lastTime + d)} :
                DoFrame(R, Call("frame", 0, onUpdateCallback.fn, R))

\* the renderer's animation loop runs a frame of the 3D loop
Animate ==
    /\ workspaceType = "3D"
    /\ loopRunning
    /\ frame.count < MaxFrames
    /\ \E deltaTime \in ClockDeltas :
            \E R \in {animate(Cur, Loop, deltaTime)} :
                DoFrame(R, Call("frame", 0, onUpdateCallback.fn, R))

\* Frames: game code creates objects and registers callbacks, the loop runs.
NextFrame ==
    \/ CreateFrameSprite
    \/ CreateMesh
    \/ OnUpdateCallback(Callbacks)
    \/ GameLoop
    \/ Animate

SpecFrame == Init /\ [][NextFrame]_vars

\* ------------------------------------------------------------ health check

\* the health checks given to LeapGuard.init: the engine's own, one that
\* raises, and one that reports an incident and then raises
HealthChecks == {"healthCheck", "throwing", "reportThenThrow"}

\* whether a check of the 2D health check reports sprite i: its position is
\* NaN or its image is neither loaded nor loading (reporting an incident
\* changes neither)
Reports(E, i) ==
    \/ IsNaN(E.sprites[i].x) \/ IsNaN(E.sprites[i].y)
    \/ /\ Truthy(E.sprites[i].imageUrl)
       /\ E.sprites[i].imageUrl \notin E.assetCache
       /\ E.sprites[i].imageUrl \notin E.loadingAssets

\* the loop of the 2D health check over allSprites, from index i on: the
\* position check and the asset check of the next sprite a check reports (the
\* sprites before it pass both checks), then the rest
RECURSIVE healthCheckSprites(_, _)
healthCheckSprites(E, i) ==
    LET reporting == {k \in i..Len(E.sprites) : Reports(E, k)}
    IN  IF reporting = {} THEN Returned(E, Undefined)
        ELSE LET at == CHOOSE k \in reporting : \A l \in reporting : k <= l
                 sprite == E.sprites[at]
                 R == IF IsNaN(sprite.x) \/ IsNaN(sprite.y)
                      THEN reportIncident(E, "trusted", "Data Integrity Check",
                                          "Sprite '" \o sprite.name \o "' has NaN position.",
                                          [cloneable |-> TRUE, id |-> sprite.id,
                                           x |-> sprite.x, y |-> sprite.y])
                      ELSE Returned(E, Undefined)
                 broken == /\ Truthy(sprite.imageUrl)
                           /\ sprite.imageUrl \notin R.E.assetCache
                           /\ sprite.imageUrl \notin R.E.loadingAssets
                 A == IF broken
                      THEN reportIncident(R.E, "trusted", "Asset Check",
                                          "Sprite '" \o sprite.name
                                              \o "' has a broken image reference: "
                                              \o sprite.imageUrl,
                                          [cloneable |-> TRUE])
                      ELSE R
             IN  IF R.threw THEN R
                 ELSE IF A.threw THEN A ELSE healthCheckSprites(A.E, at + 1)

\* a health check that takes the sprites with a NaN position out of the registry
healthCheckRemoves(E) ==
    LET Sound(s) == ~IsNaN(s.x) /\ ~IsNaN(s.y)
    IN  Returned([E EXCEPT !.sprites = SelectSeq(@, Sound)], Undefined)

\* the healthCheck function the engine gives to LeapGuard.init. The position
\* of a mesh is not part of the model, so the 3D loop reports nothing.
healthCheck(E) ==
    IF workspaceType = "2D"
    THEN LET R == IF Len(E.sprites) > 500
                  THEN reportIncident(E, "trusted", "Performance Check",
                                      "High object count: " \o ToString(Len(E.sprites))
                                          \o ". This may impact performance.",
                                      [cloneable |-> TRUE])
                  ELSE Returned(E, Undefined)
         IN  IF R.threw THEN R ELSE healthCheckSprites(R.E, 1)
    ELSE IF Len(E.meshes) > 300
         THEN reportIncident(E, "trusted", "Performance Check",
                             "High object count: " \o ToString(Len(E.meshes))
                                 \o ". This may impact performance.",
                             [cloneable |-> TRUE])
         ELSE Returned(E, Undefined)

\* customCheck()
customCheck(E, check) ==
    CASE check = "healthCheck" -> healthCheck(E)
      [] check = "throwing" -> Threw(E, "Error: check failed")
      [] check = "reportThenThrow" ->
            LET R == reportIncident(E, "trusted", "Custom Check", "bad state",
                                    [cloneable |-> TRUE])
            IN  IF R.threw THEN R ELSE Threw(R.E, "Error: check failed")
      [] OTHER -> Returned(E, Undefined)

\* _runHealthCheck without the try / catch
_runHealthCheckUncaught(E, check) ==
    customCheck(E, check)

\* _runHealthCheck(customCheck): customCheck is always a function here
\* (init replaces a missing one by a no-op)
_runHealthCheck(E, check) ==
    LET R == customCheck(E, check)
    IN  IF R.threw
        THEN Returned(Log(R.E, "error", "Error during LeapGuard health check: " \o R.error),
                      Undefined)
        ELSE R

\* the timers of LeapGuard, as one value
Timers == [_healthCheckIntervalId |-> _healthCheckIntervalId, intervals |-> intervals]

\* init that sets the new timer without clearing the running one
initKeepsTimer(E, T, options) ==
    LET check == IF "healthCheck" \in DOMAIN options THEN options.healthCheck ELSE "noop"
        id == T._healthCheckIntervalId + 1
    IN  [E |-> Log(E, "log", "LeapGuard Core: Autonomous Runtime Analysis System activated."),
         threw |-> FALSE, error |-> "none", value |-> Undefined,
         T |-> [_healthCheckIntervalId |-> id,
                intervals |-> T.intervals \cup {[id |-> id, customCheck |-> check]}]]

\* LeapGuard.init(options): clearInterval of the running timer, setInterval of
\* a new one (the ids of setInterval count up)
init(E, T, options) ==
    LET cleared == {t \in T.intervals : t.id # T._healthCheckIntervalId}
        check == IF "healthCheck" \in DOMAIN options THEN options.healthCheck ELSE "noop"
        id == T._healthCheckIntervalId + 1
    IN  [E |-> Log(E, "log", "LeapGuard Core: Autonomous Runtime Analysis System activated."),
         threw |-> FALSE, error |-> "none", value |-> Undefined,
         T |-> [_healthCheckIntervalId |-> id,
                intervals |-> cleared \cup {[id |-> id, customCheck |-> check]}]]

\* window.LeapGuard.init(options), called by game code
LeapGuardInit ==
    /\ _healthCheckIntervalId < MaxInits
    /\ \E options \in {<<>>} \cup {[healthCheck |-> c] : c \in HealthChecks} :
            LET R == init(Cur, Timers, options)
            IN  /\ Commit(R.E)
                /\ _healthCheckIntervalId' = R.T._healthCheckIntervalId
                /\ intervals' = R.T.intervals
                /\ lastCall' = Call("init", R.T._healthCheckIntervalId,
                                    IF options = <<>> THEN "noop" ELSE options.healthCheck, R)
                /\ hostLog' = HostLog(R.E.console)
    /\ UNCHANGED <<workspaceType, scenes, loadStart, lastTime, loopRunning, frame,
                   inputVars, editorVars, simulated>>

\* a tick of a running health-check timer
HealthCheckTick ==
    /\ \E t \in intervals :
            LET B == customCheck(Cur, t.customCheck)
                R == _runHealthCheck(Cur, t.customCheck)
                again == /\ lastCall.op = "healthCheck" /\ lastCall.ref = t.id
                         /\ lastCall.case \in {"raised", "raised again"}
            IN  Done(R, Call("healthCheck", t.id,
                           IF ~B.threw THEN "returned"
                           ELSE IF again THEN "raised again" ELSE "raised", R))
    /\ UNCHANGED loadStart

\* the configs of the sprites of the health-check runs
HealthConfigs == { [x |-> NaN], [name |-> "hero", y |-> NaN], [name |-> "hero"] }

\* Engine.create.sprite(config) in the health-check runs
CreateHealthSprite ==
    /\ Len(sprites) < MaxSprites
    /\ CreateSprite(HealthConfigs)

\* Health checks: game code creates objects and may call LeapGuard.init again,
\* the timers tick.
NextHealth ==
    \/ CreateHealthSprite
    \/ CreateMesh
    \/ LeapGuardInit
    \/ HealthCheckTick

SpecHealth == Init /\ [][NextHealth]_vars

\* --------------------------------------------------------- console override

\* A JavaScript value given to console.log: its typeof (t), String(value) for
\* a primitive or the name for a function (s), and for an object or array its
\* place in Heap (at).
Prim(t, str) == [t |-> t, s |-> str, at |-> 0]

Ref(at) == [t |-> "object", s |-> "", at |-> at]

JsNull == Prim("null", "null")

JsUndefined == Prim("undefined", "undefined")

Nums(n) == [i \in 1..n |-> Prim("number", ToString(i))]

Keys(n) == [i \in 1..n |-> "k" \o ToString(i)]

Arr(vals) == [kind |-> "array", keys |-> <<>>, vals |-> vals]

Obj(keys, vals) == [kind |-> "object", keys |-> keys, vals |-> vals]

\* The objects of the runs:
\*  1 []                      2 [1, 2, 3]              3 [1 .. 10]
\*  4 [1 .. 11]               5 {}                     6 { k1: 1, self: <6> }
\*  7 { k1 .. k10 }           8 { k1 .. k11 }
\*  9 a DOM element <div id="app" class="a b">
\* 10 { nodeType: 1, nodeName: 'DIV' }
\* 11 { nodeType: 1, nodeName: 'DIV', tagName: 7 }
\* 12 [ <4>, [ <12> ] ] through 13
\* 14 { __reactFiber: <6>, k2: 'x' }
\* 15 [ <11> ]               16 { stub: <11>, k1 .. k10 }
Heap ==
    << Arr(<<>>), Arr(Nums(3)), Arr(Nums(10)), Arr(Nums(11)),
       Obj(<<>>, <<>>),
       Obj(<<"k1", "self">>, <<Prim("number", "1"), Ref(6)>>),
       Obj(Keys(10), Nums(10)), Obj(Keys(11), Nums(11)),
       Obj(<<"nodeType", "nodeName", "tagName", "id", "className">>,
           <<Prim("number", "1"), Prim("string", "DIV"), Prim("string", "DIV"),
             Prim("string", "app"), Prim("string", "a b")>>),
       Obj(<<"nodeType", "nodeName">>, <<Prim("number", "1"), Prim("string", "DIV")>>),
       Obj(<<"nodeType", "nodeName", "tagName">>,
           <<Prim("number", "1"), Prim("string", "DIV"), Prim("number", "7")>>),
       Arr(<<Ref(4), Ref(13)>>), Arr(<<Ref(12)>>),
       Obj(<<"__reactFiber", "k2">>, <<Ref(6), Prim("string", "x")>>),
       Arr(<<Ref(11)>>),
       Obj(<<"stub">> \o Keys(10), <<Ref(11)>> \o Nums(10)) >>

\* the arguments of the runs, by name
JsValues ==
    [ null |-> JsNull, undefined |-> JsUndefined,
      number |-> Prim("number", "42"), string |-> Prim("string", "hi"),
      boolean |-> Prim("boolean", "true"), bigint |-> Prim("bigint", "10"),
      symbol |-> Prim("symbol", "Symbol(s)"),
      function |-> Prim("function", "update"), arrow |-> Prim("function", ""),
      empty |-> Ref(1), array3 |-> Ref(2), array10 |-> Ref(3), array11 |-> Ref(4),
      object0 |-> Ref(5), cyclic |-> Ref(6), object10 |-> Ref(7), object11 |-> Ref(8),
      div |-> Ref(9), node |-> Ref(10), stub |-> Ref(11), nested |-> Ref(12),
      react |-> Ref(14), stubInArray |-> Ref(15), stubInObject |-> Ref(16) ]

\* arg[key]: undefined when the object has no such key
Get(o, key) ==
    LET hits == {i \in DOMAIN o.keys : o.keys[i] = key}
    IN  IF hits = {} THEN JsUndefined ELSE o.vals[CHOOSE i \in hits : TRUE]

\* the keys of the runs that start with '__react' or '$$', '_owner', '_store'
isSkippableInternal(key) == key \in {"__reactFiber", "$$typeof", "_owner", "_store"}

isLikelyDomNode(v) ==
    /\ v.t = "object"
    /\ Get(Heap[v.at], "nodeType").t = "number"
    /\ Get(Heap[v.at], "nodeName").t = "string"

\* Array.prototype.join
RECURSIVE Join(_, _)
Join(texts, sep) ==
    IF texts = <<>> THEN ""
    ELSE IF Len(texts) = 1 THEN texts[1]
    ELSE texts[1] \o sep \o Join(Tail(texts), sep)

\* arr.slice(0, n)
Slice(seq, n) == SubSeq(seq, 1, IF Len(seq) < n THEN Len(seq) ELSE n)

Serialized(text, seen) == [threw |-> FALSE, error |-> "none", text |-> text, seen |-> seen]

Raised(e, seen) == [threw |-> TRUE, error |-> e, text |-> "", seen |-> seen]

\* JSON.stringify(arg) ?? String(arg) of a primitive, inside try / catch:
\* JSON.stringify quotes a string, is undefined for a symbol and raises for a
\* bigint
StringifyPrimitive(v) ==
    IF v.t = "string" THEN "\"" \o v.s \o "\"" ELSE v.s

\* The template literals of safeSerialize are written \\\${...} inside the
\* template literal that holds the script, so in the script they read \${...}:
\* the dollar sign is escaped, nothing is interpolated, and each evaluates to
\* its own text.
FunctionText == "[Function Reference (Omitted): ${arg.name || 'anonymous'}]"

DomText == "[Quarantined DOM Element: ${descriptor}]"

ArrayText == "[${preview}${arg.length > 10 ? ', ...' : ''}]"

PropertyText == "\"${key}\": ${valuePreview}"

ObjectText == "{${properties}${keys.length > 10 ? ', ...' : ''}}"

RECURSIVE safeSerialize(_, _)
RECURSIVE serializeItems(_, _, _)
RECURSIVE serializeProperties(_, _, _, _)

\* arr.map(item => safeSerialize(item, seen)): the items in order, `seen`
\* shared, up to the first that raises
serializeItems(items, seen, texts) ==
    IF items = <<>> THEN [threw |-> FALSE, error |-> "none", texts |-> texts, seen |-> seen]
    ELSE LET R == safeSerialize(Head(items), seen)
         IN  IF R.threw THEN [threw |-> TRUE, error |-> R.error, texts |-> texts, seen |-> R.seen]
             ELSE serializeItems(Tail(items), R.seen, Append(texts, R.text))

\* keys.slice(0, 10).map(key => ...).filter(Boolean)
serializeProperties(keys, vals, seen, texts) ==
    IF keys = <<>> THEN [threw |-> FALSE, error |-> "none", texts |-> texts, seen |-> seen]
    ELSE IF isSkippableInternal(Head(keys))
         THEN serializeProperties(Tail(keys), Tail(vals), seen, texts)
         ELSE LET R == safeSerialize(Head(vals), seen)
              IN  IF R.threw
                  THEN [threw |-> TRUE, error |-> R.error, texts |-> texts, seen |-> R.seen]
                  ELSE serializeProperties(Tail(keys), Tail(vals), R.seen,
                                           Append(texts, PropertyText))

\* safeSerialize(arg, seen)
safeSerialize(arg, seen) ==
    IF arg.t = "null" THEN Serialized("null", seen)
    ELSE IF arg.t = "undefined" THEN Serialized("undefined", seen)
    ELSE IF arg.t \notin {"object", "function"} THEN Serialized(StringifyPrimitive(arg), seen)
    ELSE IF arg.t = "function" THEN Serialized(FunctionText, seen)
    ELSE IF isLikelyDomNode(arg)
         THEN \* arg.tagName?.toLowerCase(): a tagName that is neither missing
              \* nor a string has no toLowerCase
              IF Get(Heap[arg.at], "tagName").t \notin {"undefined", "null", "string"}
              THEN Raised("TypeError", seen)
              ELSE Serialized(DomText, seen)
    ELSE IF arg.at \in seen THEN Serialized("[Quarantined Circular Reference]", seen)
    ELSE LET o == Heap[arg.at]
             seen1 == seen \cup {arg.at}
         IN  IF o.kind = "array"
             THEN IF o.vals = <<>> THEN Serialized("[]", seen1)
                  ELSE LET P == serializeItems(Slice(o.vals, 10), seen1, <<>>)
                       IN  IF P.threw THEN Raised(P.error, P.seen)
                           ELSE Serialized(ArrayText, P.seen)
             ELSE IF o.keys = <<>> THEN Serialized("{}", seen1)
                  ELSE LET P == serializeProperties(Slice(o.keys, 10), Slice(o.vals, 10),
                                                    seen1, <<>>)
                       IN  IF P.threw THEN Serialized("[Object]", P.seen)
                           ELSE Serialized(ObjectText, P.seen)

\* args.map(arg => typeof arg === 'string' ? arg : safeSerialize(arg)): a new
\* `seen` for every argument
RECURSIVE serializeArgs(_, _)
serializeArgs(args, texts) ==
    IF args = <<>> THEN [threw |-> FALSE, error |-> "none", texts |-> texts]
    ELSE LET arg == Head(args)
             R == IF arg.t = "string" THEN Serialized(arg.s, {}) ELSE safeSerialize(arg, {})
         IN  IF R.threw THEN [threw |-> TRUE, error |-> R.error, texts |-> texts]
             ELSE serializeArgs(Tail(args), Append(texts, R.text))

\* what a console call does, in order: the override is entered, a native
\* console method is called, a message is posted to the host
Entered(level) == [ev |-> "override", type |-> level, message |-> ""]

Native(level, message) == [ev |-> "native", type |-> level, message |-> message]

Posted(type, message) == [ev |-> "post", type |-> type, message |-> message]

\* the text of the arguments given to a native console method
ArgNames(args) == Join([i \in DOMAIN args |-> args[i].t \o ":" \o args[i].s \o ToString(args[i].at)], " ")

\* postLog without the try / catch
postLogUnguarded(type, args) ==
    LET M == serializeArgs(args, <<>>)
    IN  IF M.threw THEN [threw |-> TRUE, error |-> M.error, events |-> <<>>]
        ELSE [threw |-> FALSE, error |-> "none",
              events |-> << Posted(type, Join(M.texts, " ")) >>]

\* postLog(type, args). The message is a string, which postMessage accepts.
postLog(type, args) ==
    LET M == serializeArgs(args, <<>>)
    IN  IF M.threw
        THEN [threw |-> FALSE, error |-> "none",
              events |-> << Native("error", "Error in custom console override: " \o M.error),
                            Posted("error", "Fatal error in custom console override.") >>]
        ELSE [threw |-> FALSE, error |-> "none",
              events |-> << Posted(type, Join(M.texts, " ")) >>]

ConsoleLevels == {"log", "warn", "error", "info"}

\* console.log / warn / error / info (...args), overridden
consoleMethod(level, args) ==
    LET P == postLog(level, args)
    IN  [threw |-> P.threw, error |-> P.error,
         events |-> << Entered(level), Native(level, ArgNames(args)) >> \o P.events]

\* the argument lists of the runs: the value named n alone (count 1), or a
\* label and the value (count 2)
ConsoleArgs(n, count) ==
    IF count = 1 THEN << JsValues[n] >> ELSE << Prim("string", "value:"), JsValues[n] >>

\* game code calls console.log / warn / error / info. lastCall.ref is the
\* number of arguments, lastCall.case the name of the value.
ConsoleCall ==
    /\ \E level \in ConsoleLevels, n \in DOMAIN JsValues, count \in {1, 2} :
            LET R == consoleMethod(level, ConsoleArgs(n, count))
                posts == SelectSeq(R.events, LAMBDA e : e.ev = "post")
            IN  /\ lastCall' = [op |-> "console." \o level, ref |-> count,
                                case |-> n, threw |-> R.threw]
                /\ hostLog' = [i \in DOMAIN posts |-> [type |-> posts[i].type,
                                                       message |-> posts[i].message]]
    /\ console' = <<>>
    /\ UNCHANGED <<workspaceType, scenes, sprites, particles, onUpdateCallback, camera,
                   state, meshes, sceneChildren, cameraTarget, _incidents, posted,
                   nextRef, handles, lastSet, reported, inserted, loadStart, lastTime,
                   loopRunning, frame, _healthCheckIntervalId, intervals,
                   assetCache, loadingAssets, images, background, inputVars, editorVars,
                   simulated>>

NextConsole ==
    \/ ConsoleCall

SpecConsole == Init /\ [][NextConsole]_vars

\* ---------------------------------------------------------------- physics

\* the configs of the sprites of the collision runs: a box; one that touches
\* it at an edge (and as a circle); one that overlaps it as a box and touches
\* it as a circle (3-4-5); one that overlaps it by half a unit; one with a
\* radius; one without a size; one with a NaN position
CollisionConfigs ==
    { [x |-> 0, y |-> 0, width |-> 50, height |-> 50],
      [x |-> 50, y |-> 0, width |-> 50, height |-> 50],
      [x |-> 30, y |-> 40, width |-> 50, height |-> 50],
      [x |-> 0, y |-> 41, width |-> 33, height |-> 33],
      [x |-> 40, y |-> 0, width |-> 50, height |-> 50, radius |-> 10],
      [x |-> 25, y |-> 0, width |-> 0, height |-> 0],
      [x |-> NaN, y |-> 0, width |-> 50, height |-> 50] }

\* Engine.physics.getCollisions(sprite, useCircular), called by game code
GetCollisions ==
    /\ workspaceType = "2D"
    /\ \E i \in DOMAIN sprites, useCircular \in BOOLEAN :
            LET R == getCollisions(Cur, sprites[i], useCircular)
            IN  Do(R, [op |-> "getCollisions", ref |-> sprites[i].ref,
                       case |-> IF R.value = <<>> THEN "none" ELSE "some",
                       threw |-> R.threw])
    /\ UNCHANGED loadStart

\* ------------------------------------------------------------- iteration

\* Game code that walks an array the engine returned and destroys sprites on
\* the way. A loop is the engine state E, the array `arr` it walks, and
\* `aliased`: whether arr is still the very array the registry variable
\* `sprites` refers to (getAllSprites returns that array; getCollisions
\* returns the new array filter built).

\* destroy() that removes the sprite from the registry array in place
destroyInLoopInPlace(A, s) ==
    LET R == spriteDestroyBySplice(A.E, [ref |-> s.ref, id |-> s.id, kind |-> "sprite"])
    IN  [A EXCEPT !.E = R.E, !.arr = IF A.aliased THEN R.E.sprites ELSE @]

\* s.destroy() inside the loop: `sprites = sprites.filter(...)` makes a new
\* array and points the registry at it; the array being walked is not touched
destroyInLoop(A, s) ==
    LET R == spriteDestroy(A.E, [ref |-> s.ref, id |-> s.id, kind |-> "sprite"])
    IN  [A EXCEPT !.E = R.E, !.aliased = FALSE]

\* what the loop body destroys when it visits arr[i]: the element itself, the
\* element after it, or the first element of the array
LoopBodies == {"self", "next", "first"}

Target(arr, i, body) ==
    CASE body = "self" -> i
      [] body = "next" -> IF i < Len(arr) THEN i + 1 ELSE 0
      [] body = "first" -> 1

\* for (const s of arr) { console.log(s.id); <body> }, from index i on: the
\* array iterator reads arr.length and arr[i] anew at every step
RECURSIVE forOf(_, _, _)
forOf(A, i, body) ==
    IF i > Len(A.arr) THEN Returned(A.E, Undefined)
    ELSE LET s == A.arr[i]
             visited == [A EXCEPT !.E = Log(A.E, "log", s.id)]
             target == Target(A.arr, i, body)
         IN  forOf(IF target = 0 THEN visited
                   ELSE destroyInLoop(visited, A.arr[target]),
                   i + 1, body)

\* the array game code walks: Engine.getAllSprites(), or the collisions of
\* the first sprite
Walked(E, from) ==
    IF from = "getAllSprites" THEN [E |-> E, arr |-> E.sprites, aliased |-> TRUE]
    ELSE [E |-> E, arr |-> getCollisions(E, E.sprites[1], FALSE).value, aliased |-> FALSE]

\* game code walks an array the engine returned, destroying sprites
ForOfDestroying ==
    /\ workspaceType = "2D"
    /\ sprites # <<>>
    /\ \E from \in {"getAllSprites", "getCollisions"}, body \in LoopBodies :
            LET A == Walked(Cur, from)
                R == forOf(A, 1, body)
            IN  Do(R, [op |-> "forOf " \o from, ref |-> Len(A.arr), case |-> body,
                       threw |-> R.threw])
    /\ UNCHANGED loadStart

\* Collisions: game code creates sprites, asks for their collisions, and
\* walks the arrays it got, destroying sprites.
NextCollision ==
    \/ CreateSprite(CollisionConfigs)
    \/ GetCollisions
    \/ ForOfDestroying

SpecCollision == Init /\ [][NextCollision]_vars

\* ---------------------------------------------------------------- effects

\* Math.random() * life, for the default life of 0.5 s and lives of up to 2 s:
\* the whole seconds a particle is created with
DrawnLives == {0, 1, 2}

\* Engine.create.particles(config), called by game code
CreateParticlesDrawn ==
    /\ workspaceType = "2D"
    /\ \E drawn \in DrawnLives :
            LET R == createParticles(Cur, 1, drawn)
            IN  Do(R, Call("create.particles", 0, "one", R))
    /\ UNCHANGED loadStart

\* the arguments game code calls create.sprite with: none, an empty config,
\* and configs that give some of the fields
SpriteArgs ==
    [missing |-> <<>>,
     empty |-> << <<>> >>,
     position |-> << [x |-> 7, y |-> 9] >>,
     motion |-> << [vx |-> 3, drag |-> 1, color |-> "red", type |-> "ui"] >>]

\* Engine.create.sprite(...), instrumented, with each of these arguments
CreateSpriteArgs ==
    /\ workspaceType = "2D"
    /\ \E case \in DOMAIN SpriteArgs :
            LET R == instrument("Engine.create.sprite",
                                createSprite(Cur, SpriteArgs[case]), TRUE)
            IN  Do(R, Call("create.sprite", 0, case, R))
    /\ UNCHANGED loadStart

\* Sprite creation: game code creates sprites.
NextCreate ==
    \/ CreateSpriteArgs

SpecCreate == Init /\ [][NextCreate]_vars

\* Effects: game code creates particles and registers one update callback
\* after another, the loop runs.
NextEffects ==
    \/ CreateParticlesDrawn
    \/ OnUpdateCallback({"f", "g"})
    \/ GameLoop
    \/ Animate

SpecEffects == Init /\ [][NextEffects]_vars

\* ------------------------------------------------ input and editor events

\* what the listeners of the input manager and the visual editor leave alone
engineVars ==
    <<workspaceType, scenes, sprites, particles, onUpdateCallback, camera, state,
      meshes, cameraTarget, _incidents, posted, nextRef, handles, lastSet,
      loadStart, reported, inserted, lastTime, loopRunning, frame,
      _healthCheckIntervalId, intervals, assetCache, loadingAssets, images,
      background>>

\* an event listener ran: it made no console call
Listened(op, case) ==
    /\ lastCall' = [op |-> op, ref |-> 0, case |-> case, threw |-> FALSE]
    /\ console' = <<>>
    /\ hostLog' = <<>>

\* e.code of the keyboard events of the runs
KeyCodes == {"Space", "KeyR"}

\* the document's keydown event
KeyDown ==
    \E code \in KeyCodes :
        LET K == keydown([keysPressed |-> keysPressed,
                          keysJustPressed |-> keysJustPressed], code)
        IN  /\ keysPressed' = K.keysPressed
            /\ keysJustPressed' = K.keysJustPressed
            /\ Listened("keydown", code)
            /\ UNCHANGED <<engineVars, sceneChildren, editorVars, simulated>>

\* the document's keyup event
KeyUp ==
    \E code \in KeyCodes :
        LET K == keyup([keysPressed |-> keysPressed,
                        keysJustPressed |-> keysJustPressed], code)
        IN  /\ keysPressed' = K.keysPressed
            /\ keysJustPressed' = K.keysJustPressed
            /\ Listened("keyup", code)
            /\ UNCHANGED <<engineVars, sceneChildren, editorVars, simulated>>

\* Input: keys go down and up, the loop runs.
NextInput ==
    \/ KeyDown
    \/ KeyUp
    \/ OnUpdateCallback({"update", "crash"})
    \/ GameLoop
    \/ Animate

SpecInput == Init /\ [][NextInput]_vars

CommitEditor(V) ==
    /\ isInspectMode' = V.isInspectMode
    /\ mousePos' = V.mousePos
    /\ hoveredSprite' = V.hoveredSprite
    /\ hoveredMesh' = V.hoveredMesh
    /\ boxHelper' = V.boxHelper
    /\ selects' = V.selects

\* where the mouse is moved to (the canvas is at the window's origin)
MousePositions == { [x |-> 1, y |-> 12], [x |-> 100, y |-> 100] }

\* updateMousePos(event), the canvas's mousemove listener
updateMousePos(V, event) == [V EXCEPT !.mousePos = [x |-> event.x, y |-> event.y]]

MouseMove ==
    \E event \in MousePositions :
        /\ CommitEditor(updateMousePos(Editor, event))
        /\ Listened("mousemove", "")
        /\ UNCHANGED <<engineVars, sceneChildren, inputVars, simulated>>

\* the canvas's click event
Click ==
    /\ Len(click(Editor).selects) <= MaxSelects
    /\ CommitEditor(click(Editor))
    /\ Listened("click", IF click(Editor).selects = selects THEN "ignored" ELSE "select")
    /\ UNCHANGED <<engineVars, sceneChildren, inputVars, simulated>>

\* the messages the host posts to the game window
HostMessages ==
    { [type |-> "visual-editor-toggle", payload |-> [enabled |-> TRUE]],
      [type |-> "visual-editor-toggle", payload |-> [enabled |-> FALSE]],
      [type |-> "leap-guard-quarantine", payload |-> [enabled |-> TRUE]] }

\* the window's message event, as the visual editor's listener handles it
HostMessage ==
    \E data \in HostMessages :
        LET R == onMessage(Cur, Editor, data)
        IN  /\ CommitEditor(R.V)
            /\ sceneChildren' = R.E.sceneChildren
            /\ Listened(data.type, IF data.payload.enabled THEN "on" ELSE "off")
            /\ UNCHANGED <<engineVars, inputVars, simulated>>

\* the configs of the sprites of the editor runs: two boxes that overlap, one
\* of them without a name
EditorConfigs ==
    { [x |-> 10, y |-> 10, width |-> 20, height |-> 20, name |-> "hero"],
      [x |-> 5, y |-> 15, width |-> 20, height |-> 20, name |-> ""] }

CreateEditorSprite ==
    /\ Len(sprites) < MaxSprites
    /\ CreateSprite(EditorConfigs)

\* Visual editor: game code creates objects, the host toggles inspect mode,
\* the user moves the mouse and clicks, the loop runs.
NextEditor ==
    \/ CreateEditorSprite
    \/ CreateMesh
    \/ MouseMove
    \/ Click
    \/ HostMessage
    \/ GameLoop
    \/ Animate

SpecEditor == Init /\ [][NextEditor]_vars

\* Selection: as the visual editor runs, with an update callback that
\* destroys the first object game code created.
NextSelect ==
    \/ CreateEditorSprite
    \/ CreateMesh
    \/ OnUpdateCallback({"cleanup"})
    \/ MouseMove
    \/ Click
    \/ HostMessage
    \/ GameLoop
    \/ Animate

SpecSelect == Init /\ [][NextSelect]_vars

\* ----------------------------------------------------------------- assets

\* the image url of the runs: the sprites and the background share it
Urls == {"hero.png"}

\* the configs of the sprites of the asset runs
AssetConfigs == { [imageUrl |-> "hero.png", name |-> "hero"], [name |-> "box"] }

CreateAssetSprite ==
    /\ Len(sprites) < MaxSprites
    /\ CreateSprite(AssetConfigs)

\* Engine.background.setImage(url), called by game code
SetImage(urls) ==
    /\ workspaceType = "2D"
    /\ \E url \in urls :
            LET R == backgroundSetImage(Cur, url)
            IN  Do(R, Call("background.setImage", 0, url, R))
    /\ UNCHANGED loadStart

BackgroundSetImage == SetImage(Urls)

\* the load of the i-th pending Image has ended: the browser fires its event
LoadEnded(E, i) ==
    [E EXCEPT !.images = SubSeq(@, 1, i - 1) \o SubSeq(@, i + 1, Len(@))]

\* the browser finishes a load that is in flight: the image's load event
ImageOnload ==
    /\ \E i \in DOMAIN images :
            LET R == imageOnload(LoadEnded(Cur, i), images[i])
            IN  Do(R, Call("img.onload", 0, images[i], R))
    /\ UNCHANGED loadStart

\* the browser gives up a load that is in flight: the image's error event
ImageOnerror ==
    /\ \E i \in DOMAIN images :
            LET R == imageOnerror(LoadEnded(Cur, i), images[i])
            IN  Do(R, Call("img.onerror", 0, images[i], R))
    /\ UNCHANGED loadStart

\* Assets: game code creates sprites with images and sets the background, the
\* browser ends the loads, the loop runs and the health check ticks.
NextAssets ==
    \/ CreateAssetSprite
    \/ BackgroundSetImage
    \/ ImageOnload
    \/ ImageOnerror
    \/ GameLoop
    \/ HealthCheckTick

SpecAssets == Init /\ [][NextAssets]_vars

\* Loader: two images, each wanted by sprites and by the background, whose
\* loads end in any order
LoaderUrls == {"hero.png", "tile.png"}

CreateLoaderSprite ==
    /\ Len(sprites) < MaxSprites
    /\ CreateSprite({[imageUrl |-> url] : url \in LoaderUrls})

NextLoader ==
    \/ CreateLoaderSprite
    \/ SetImage(LoaderUrls)
    \/ ImageOnload
    \/ ImageOnerror

SpecLoader == InitDebugger /\ [][NextLoader]_vars

\* ------------------------------------------------------- starter game runs

\* the sprites the starter game's callback creates, where they can be when a
\* frame's callback runs: bullets (8 x 25, fired upwards at 850 px/s) near
\* the top edge, obstacles (50 x 50, falling at 100 px/s)
\* just spawned at y = -25
StarterConfigs ==
    { [name |-> "bullet", x |-> 640, y |-> -10, width |-> 8, height |-> 25, vy |-> -850],
      [name |-> "bullet", x |-> 640, y |-> -38, width |-> 8, height |-> 25, vy |-> -850],
      [name |-> "obstacle", x |-> 650, y |-> -25, width |-> 50, height |-> 50, vy |-> 100],
      [name |-> "obstacle", x |-> 100, y |-> -25, width |-> 50, height |-> 50, vy |-> 100] }

\* The game script runs: it defines the main scene, the start scene's callback
\* loads it, and from then on the main scene's callback creates bullets and
\* obstacles and the loop runs it.
StarterDefine ==
    /\ DOMAIN scenes = {}
    /\ SceneDefine({"main"}, {"starter2D"})

StarterLoad ==
    /\ DOMAIN state = {}
    /\ SceneLoad({"main"})

StarterCreate ==
    /\ onUpdateCallback.fn = "starter"
    /\ CreateSprite(StarterConfigs)

StarterFrame ==
    /\ onUpdateCallback.fn = "starter"
    /\ GameLoop

NextStarter ==
    \/ StarterDefine
    \/ StarterLoad
    \/ StarterCreate
    \/ StarterFrame

SpecStarter == InitDebugger /\ [][NextStarter]_vars

\* ------------------------------------------------------------------ drag
\* The drag of one sprite over a second, without acceleration, stepped at two
\* frame rates. A velocity is kept exactly, as c * (1 - drag)^k for the
\* sprite's drag coefficient: [c, k].
Velocity(c) == [c |-> c, k |-> 0]

\* Math.pow(1 - (s.drag || 0), n)
DragPower(n) == [c |-> 1, k |-> n]

\* v * f
Times(v, f) == [c |-> v.c * f.c, k |-> v.k + f.k]

\* whether two velocities are the same number, whatever the coefficient
SameVelocity(a, b) == (a.c = 0 /\ b.c = 0) \/ a = b

\* frames per second of the two simulations, and the frames/s that the drag
\* formula is written for (deltaTime * 60)
StepsAt60 == 60
StepsAt30 == 30

\* a drag step whose factor does not depend on deltaTime
dragStepPerFrame(s, deltaTime60) ==
    [s EXCEPT !.vx = Times(@, DragPower(1)), !.vy = Times(@, DragPower(1)),
              !.steps = @ + 1]

\* gameLoop, apply drag (ax = ay = 0, so the acceleration lines add 0):
\* deltaTime60 is deltaTime * 60, which is 1 for deltaTime = 1/60 and 2 for 1/30
dragStep(s, deltaTime60) ==
    LET dragFactor == DragPower(deltaTime60)
    IN  [s EXCEPT !.vx = Times(@, dragFactor), !.vy = Times(@, dragFactor),
                  !.steps = @ + 1]

\* the velocities a simulation starts with
StartVelocities == {0, 3, -4}

Simulated(vx, vy) == [vx |-> Velocity(vx), vy |-> Velocity(vy), steps |-> 0]

otherVars ==
    <<engineVars, sceneChildren, inputVars, editorVars, console, hostLog, lastCall>>

\* the sprite gets its velocity, in both simulations
SimulationStart ==
    /\ simulated.at60.steps = 0 /\ simulated.at30.steps = 0
    /\ \E vx, vy \in StartVelocities :
            simulated' = [at60 |-> Simulated(vx, vy), at30 |-> Simulated(vx, vy)]
    /\ UNCHANGED otherVars

\* a frame of 1/60 s
StepAt60 ==
    /\ simulated.at60.steps < StepsAt60
    /\ simulated' = [simulated EXCEPT !.at60 = dragStep(@, 60 \div StepsAt60)]
    /\ UNCHANGED otherVars

\* a frame of 1/30 s
StepAt30 ==
    /\ simulated.at30.steps < StepsAt30
    /\ simulated' = [simulated EXCEPT !.at30 = dragStep(@, 60 \div StepsAt30)]
    /\ UNCHANGED otherVars

NextDrag ==
    \/ SimulationStart
    \/ StepAt60
    \/ StepAt30

SpecDrag == InitDebugger /\ [][NextDrag]_vars

\* ------------------------------------------------------------- idle runs
\* Idle: objects and particles are created and the callback is registered
\* before the first frame; then the host toggles inspect mode and only the
\* loop and the health check run. The update callback is the engine's no-op,
\* or one that makes no engine call ("g" logs).
IdleSetup ==
    /\ frame.count = 0
    /\ posted = <<>>
    /\ \/ CreateHealthSprite
       \/ CreateMesh
       \/ CreateParticlesDrawn
       \/ OnUpdateCallback({"g"})

NextIdle ==
    \/ IdleSetup
    \/ HostMessage
    \/ GameLoop
    \/ Animate
    \/ HealthCheckTick

SpecIdle == Init /\ [][NextIdle]_vars

\* ------------------------------------------------------------ camera shake
\* the shakes game code asks for: intensity in px, duration in seconds
ShakeIntensities == {3, 10}
ShakeDurations == {1, 2, 3}

\* Engine.camera.shake(intensity, duration), called by game code
CameraShake ==
    /\ workspaceType = "2D"
    /\ \E intensity \in ShakeIntensities, duration \in ShakeDurations :
            LET R == cameraShake(Cur, intensity, duration)
            IN  Do(R, Call("camera.shake", 0, "", R))
    /\ UNCHANGED loadStart

\* a frame of the 2D loop that takes time
PositiveFrame == GameLoop /\ frame'.deltaTime > 0

\* Camera shake: game code shakes the camera, the loop runs; a frame that
\* takes time is run as long as the loop asks for frames.
NextShake ==
    \/ CameraShake
    \/ GameLoop

SpecShake == InitDebugger /\ [][NextShake]_vars /\ WF_vars(PositiveFrame)

\* ------------------------------------------------------- performance check

\* the population above which healthCheck reports a 'Performance Check'
Threshold == IF workspaceType = "2D" THEN 500 ELSE 300

\* allSprites.length / meshes.length
Population == IF workspaceType = "2D" THEN Len(sprites) ELSE Len(meshes)

\* how many objects a crowded run creates beyond the threshold
MaxCrowd == 3

\* the i-th call of a loop of Engine.create.sprite({}) (2D) or
\* Engine.create.mesh({}) (3D) calls that starts in E
Created(E, i) ==
    IF workspaceType = "2D"
    THEN createSprite([E EXCEPT !.nextRef = E.nextRef + i - 1], << <<>> >>)
    ELSE createMesh([E EXCEPT !.nextRef = E.nextRef + i - 1], << <<>> >>)

\* game code: for (let i = 0; i < count; i++) Engine.create.sprite({}), or
\* Engine.create.mesh({}) in 3D; E holds no object yet
createCrowd(E, count) ==
    LET handle == {Created(E, i).value : i \in 1..count}
    IN  Returned(
            IF workspaceType = "2D"
            THEN [E EXCEPT !.sprites = [i \in 1..count |-> Created(E, i).E.sprites[1]],
                           !.nextRef = @ + count,
                           !.handles = @ \cup handle]
            ELSE [E EXCEPT !.meshes = [i \in 1..count |-> Created(E, i).E.meshes[1]],
                           !.sceneChildren = [i \in 1..count |->
                                                Created(E, i).E.sceneChildren[1]],
                           !.nextRef = @ + count,
                           !.handles = @ \cup handle],
            Undefined)

\* the setup of a crowded game: as many objects as the threshold, or one more
CrowdSetup ==
    /\ Population = 0
    /\ nextRef = 1
    /\ \E count \in {Threshold, Threshold + 1} :
            \E R \in {createCrowd(Cur, count)} :
                Done(R, Call("create.crowd", 0, "setup", R))
    /\ UNCHANGED loadStart

\* Engine.create.sprite({}) or Engine.create.mesh({}) in a crowded game
CrowdCreate ==
    /\ Population >= Threshold
    /\ nextRef <= Threshold + MaxCrowd
    /\ \E R \in {IF workspaceType = "2D"
                 THEN instrument("Engine.create.sprite",
                                 createSprite(Cur, << <<>> >>), TRUE)
                 ELSE instrument("Engine.create.mesh",
                                 createMesh(Cur, << <<>> >>), TRUE)} :
            Done(R, Call("create", 0, "crowded", R))
    /\ UNCHANGED loadStart

\* handle.destroy() of one of the newest objects of a crowded game, which
\* leaves the population above the threshold
CrowdDestroy ==
    /\ Population - 1 > Threshold
    /\ \E h \in handles :
            /\ h.ref > Threshold
            /\ Live(h)
            /\ \E R \in {instanceDestroy(Cur, h)} :
                    Done(R, Call("destroy", h.ref, "crowded", R))
    /\ UNCHANGED loadStart

\* A crowded game: game code fills the registry up to the threshold of the
\* performance check, then creates and destroys objects above it, and the
\* health-check timer ticks.
NextCrowd ==
    \/ CrowdSetup
    \/ CrowdCreate
    \/ CrowdDestroy
    \/ HealthCheckTick

SpecCrowd == Init /\ [][NextCrowd]_vars

\* ------------------------------------------------------------- claims

Registry == IF workspaceType = "2D" THEN sprites ELSE meshes

\* C1: for every handle create.sprite / create.mesh has returned, calling its
\* destroy() twice leaves the engine in the state one call leaves it in, and
\* neither call raises.
C1_DestroyIdempotent ==
    \A h \in handles :
        h.kind \in {"sprite", "mesh"} =>
            LET once == instanceDestroy(Cur, h)
                twice == instanceDestroy(once.E, h)
            IN  ~once.threw /\ ~twice.threw /\ twice.E = once.E

\* C1 witness: destroy() was just called a second time in a row on the same
\* handle, with other objects still in the registry.
C1_Witness ==
    lastCall.op = "destroy" /\ lastCall.case = "again" /\ Len(Registry) > 0

\* C2: when scene.load of a defined scene has returned, the registry holds
\* exactly the objects created since the load began, and no sprite, mesh,
\* scene child, particle or update callback from before the load remains.
C2_SceneResetComplete ==
    (lastCall.op = "scene.load" /\ lastCall.case = "defined" /\ ~lastCall.threw) =>
        /\ {sprites[i].ref : i \in DOMAIN sprites}
             \cup {sceneChildren[i].ref : i \in DOMAIN sceneChildren}
           = loadStart .. (nextRef - 1)
        /\ \A i \in DOMAIN meshes :
                \E j \in DOMAIN sceneChildren : sceneChildren[j] = meshes[i]
        /\ \A j \in DOMAIN sceneChildren :
                sceneChildren[j].kind = "mesh" =>
                    \E i \in DOMAIN meshes : meshes[i] = sceneChildren[j]
        /\ \A i \in DOMAIN particles : ~particles[i].stale
        /\ ~onUpdateCallback.stale

\* C2 witness: a load of a defined scene returned, objects had been created
\* before it, and its setup function created objects.
C2_Witness ==
    /\ lastCall.op = "scene.load" /\ lastCall.case = "defined" /\ ~lastCall.threw
    /\ loadStart > 1
    /\ nextRef > loadStart

\* C3: scene.load of a name that is not defined logs an error, raises nothing
\* and changes nothing else (registry, particles, camera, update callback,
\* scene graph, data, incidents).
C3_LoadUndefinedScene ==
    \A name \in SceneNames \ DOMAIN scenes :
        LET R == instrument("Engine.scene.load", sceneLoad(Cur, name), TRUE)
        IN  /\ ~R.threw
            /\ \E i \in DOMAIN R.E.console : R.E.console[i].level = "error"
            /\ [R.E EXCEPT !.console = <<>>] = Cur

\* C3 witness: an undefined scene was just loaded while the registry held
\* objects and an update callback was registered.
C3_Witness ==
    /\ lastCall.op = "scene.load" /\ lastCall.case = "undefined"
    /\ Len(Registry) > 0
    /\ onUpdateCallback # NoopCallback

\* C4: getData(k) returns the value of the most recent setData(k, v), whatever
\* loads, creations and destructions came in between, and resetSceneState
\* leaves the map as it is.
C4_DataSurvivesSceneLoad ==
    /\ \A k \in DOMAIN lastSet : getData(Cur, k) = lastSet[k]
    /\ resetSceneState(Cur).state = state

\* C4 witness: a scene load has just returned and the value stored before it
\* is still the one getData returns.
C4_Witness ==
    /\ lastCall.op = "scene.load" /\ lastCall.case = "defined" /\ ~lastCall.threw
    /\ "score" \in DOMAIN lastSet
    /\ lastSet["score"] = "100"
    /\ getData(Cur, "score") = "100"

\* C5: a quarantine-incident whose context names no object of the live
\* registry (or carries no id, or no context) raises nothing, logs no error,
\* and leaves the registry and every object in it as they were.
C5_QuarantineMissingObject ==
    \A incident \in Incidents :
        Matches(Cur, incident) = {} =>
            LET R == quarantineAction(Cur, incident)
            IN  /\ ~R.threw
                /\ \A i \in DOMAIN R.E.console : R.E.console[i].level # "error"
                /\ R.E.sprites = sprites
                /\ R.E.meshes = meshes

\* C5 witness: a quarantine-incident naming no live object was just handled
\* while the registry held objects, one of them destroyed earlier.
C5_Witness ==
    /\ lastCall.op = "quarantine" /\ lastCall.case = "no match"
    /\ Len(Registry) > 0
    /\ \E h \in handles : h.kind \in {"sprite", "mesh"} /\ ~Live(h)

\* the sequence without its element at index t
Without(seq, t) ==
    [j \in 1..(Len(seq) - 1) |-> IF j < t THEN seq[j] ELSE seq[j + 1]]

\* C6 (as claimed): for a quarantine-incident with a suspect and a context id
\* that is the id of a live 2D sprite, 'Velocity Check' zeroes that sprite's vx
\* and vy and keeps it, every other suspect removes that sprite, and no other
\* sprite changes.
C6_QuarantineActsOnMatch ==
    workspaceType = "2D" =>
        \A incident \in Incidents :
            (incident.suspect # "" /\ Matches(Cur, incident) # {}) =>
                LET R == quarantineAction(Cur, incident)
                IN  \E t \in Matches(Cur, incident) :
                        R.E.sprites =
                            IF incident.suspect = "Velocity Check"
                            THEN [sprites EXCEPT ![t].vx = 0, ![t].vy = 0]
                            ELSE Without(sprites, t)

IncidentKey(t) == t[1] \o t[2] \o t[3]

\* the messages posted to the host for triple t
PostsOf(log, t) ==
    {i \in DOMAIN log : <<log[i].threatLevel, log[i].suspect, log[i].message>> = t}

Clonable == [cloneable |-> TRUE]

\* C7 (as claimed): a triple not reported before, reported twice in a row with
\* contexts the host channel accepts (no eviction in between), has exactly one
\* debugger-incident message posted for it.
C7_SameTripleForwardedOnce ==
    \A t \in Triples \ reported :
        LET R1 == reportIncident(Cur, t[1], t[2], t[3], Clonable)
            R2 == reportIncident(R1.E, t[1], t[2], t[3], Clonable)
        IN  /\ ~R1.threw /\ ~R2.threw
            /\ Cardinality(PostsOf(R2.E.posted, t)) = 1

Min(a, b) == IF a < b THEN a ELSE b

\* the last n elements of a sequence
Last(seq, n) == SubSeq(seq, Len(seq) - n + 1, Len(seq))

\* C8: the tracked keys are the most recent additions, at most 100 of them, in
\* the order they were added (so the key dropped on overflow is the one added
\* earliest); a repeat of a tracked triple is suppressed and a repeat of an
\* evicted one is forwarded again; after 101 distinct reports the first key is
\* the one evicted and the 2nd to 101st are tracked.
C8_IncidentFifo ==
    /\ Len(_incidents) <= MaxIncidents
    /\ _incidents = Last(inserted, Min(MaxIncidents, Len(inserted)))
    /\ \A t \in reported :
            LET R == reportIncident(Cur, t[1], t[2], t[3], Clonable)
            IN  IF IncidentKey(t) \in Range(_incidents)
                THEN R.E.posted = posted
                ELSE /\ Len(R.E.posted) = Len(posted) + 1
                     /\ Len(R.E.posted) \in PostsOf(R.E.posted, t)
    /\ Len(inserted) = MaxIncidents + 1 =>
            /\ IncidentKey(NthTriple(1)) \notin Range(_incidents)
            /\ \A n \in 2..(MaxIncidents + 1) :
                    IncidentKey(NthTriple(n)) \in Range(_incidents)

\* C8 witness: 101 distinct incidents were reported and the repeat of the
\* first one has just been forwarded to the host again.
C8_Witness ==
    /\ Cardinality(reported) = MaxIncidents + 1
    /\ lastCall.op = "reportIncident" /\ lastCall.case = "again" /\ lastCall.ref = 1
    /\ Len(posted) = MaxIncidents + 2
    /\ Len(posted) \in PostsOf(posted, NthTriple(1))

\* C9 (as claimed): two triples that differ in a component, neither reported
\* before, reported one after the other, are both forwarded to the host.
C9_DistinctTriplesBothForwarded ==
    \A t1 \in Triples \ reported, t2 \in Triples \ reported :
        t1 # t2 =>
            LET R1 == reportIncident(Cur, t1[1], t1[2], t1[3], Clonable)
                R2 == reportIncident(R1.E, t2[1], t2[2], t2[3], Clonable)
            IN  /\ PostsOf(R2.E.posted, t1) # {}
                /\ PostsOf(R2.E.posted, t2) # {}

\* C10 (as claimed): the wrapper returns what fn returns and reports nothing;
\* when fn raises it reports one trusted incident with suspect
\* "Exception in <name>" and raises the same exception.
C10_InstrumentTransparent ==
    \A fn \in Outcomes(Cur), argsCloneable \in BOOLEAN :
        LET W == instrument("f", fn, argsCloneable)
        IN  IF ~fn.threw THEN W = fn
            ELSE /\ W.threw
                 /\ W.error = fn.error
                 /\ W.E.reported = reported \cup {<<"trusted", "Exception in f", fn.error>>}
                 /\ Len(W.E.posted) <= Len(posted) + 1

\* the frames the loop can run next
NextFrames ==
    IF workspaceType = "2D"
    THEN {gameLoop(Cur, Loop, lastTime + d) : d \in FrameDeltas}
    ELSE {animate(Cur, Loop, deltaTime) : deltaTime \in ClockDeltas}

\* C11: when the update callback raises inside a frame, a trusted incident
\* for that exception has been reported by the time the exception leaves the
\* frame.
C11_CallbackExceptionReported ==
    loopRunning =>
        \A R \in NextFrames :
            R.threw => \E t \in R.E.reported : t[1] = "trusted" /\ t[3] = R.error

\* C13: in every frame the physics step of every sprite in the registry is
\* done before the update callback is called, the callback is called exactly
\* once, and rendering starts only after the callback has returned.
C13_FrameOrder ==
    loopRunning =>
        \A R \in NextFrames :
            LET events == R.L.frame.events
                At(ev) == {i \in DOMAIN events : events[i].ev = ev}
            IN  /\ Cardinality(At("callback")) = 1
                /\ \A i \in At("physics"), c \in At("callback") : i < c
                /\ workspaceType = "2D" =>
                        \A j \in DOMAIN sprites :
                            \E i \in At("physics") : events[i].ref = sprites[j].ref
                /\ \A i \in At("render"), c \in At("callback") : c < i
                /\ R.threw => At("render") = {}
                /\ ~R.threw => Cardinality(At("render")) = 1

\* C13 witness: a second frame has just run to its end with two sprites in
\* the registry and a registered callback.
C13_Witness ==
    /\ lastCall.op = "frame" /\ ~lastCall.threw /\ lastCall.case = "update"
    /\ frame.count >= 2
    /\ Len(sprites) >= 2
    /\ Len(frame.events) >= 4

\* C14: the frame whose update callback raises renders nothing, and from then
\* on no frame renders and no frame is requested, in 2D and in 3D.
C14_FrozenAfterCallbackThrows ==
    [][ /\ frame.frozen => (frame'.rendered = frame.rendered /\ ~loopRunning')
        /\ (frame'.frozen /\ ~frame.frozen) =>
                (frame'.rendered = frame.rendered /\ ~loopRunning') ]_vars

\* C14 witness: the callback raised in a frame after a rendered one, and the
\* game code has been called again since.
C14_Witness ==
    /\ frame.frozen
    /\ frame.rendered >= 1
    /\ frame.count = frame.rendered + 1
    /\ lastCall.op = "onUpdate"

\* C15: the deltaTime of the first 2D frame is 0, whatever its timestamp.
C15_FirstDeltaTimeZero ==
    (workspaceType = "2D" /\ frame.count = 1) => frame.deltaTime = 0

\* C16: within a 2D frame a sprite's velocity is first advanced by the
\* acceleration, then multiplied by (1 - drag)^(deltaTime * 60), the position
\* is then advanced by the updated velocity, and then clamped; with drag 0,
\* vx' = vx + ax * deltaTime and x' = x + vx' * deltaTime.
C16_PhysicsOrder ==
    (workspaceType = "2D" /\ loopRunning /\ CallbackBody(onUpdateCallback.fn) = <<>>) =>
        \A d \in FrameDeltas :
            LET R == gameLoop(Cur, Loop, lastTime + d)
                deltaTime == d \div 1000
            IN  \A i \in DOMAIN sprites :
                    LET s == sprites[i]
                        t == R.E.sprites[i]
                        vx == (s.vx + s.ax * deltaTime) * MathPow(1 - s.drag, deltaTime * 60)
                        vy == (s.vy + s.ay * deltaTime) * MathPow(1 - s.drag, deltaTime * 60)
                    IN  (~IsNaN(s.vx) /\ ~IsNaN(s.x)) =>
                            /\ t.vx = vx
                            /\ t.vy = vy
                            /\ s.drag = 0 => t.vx = s.vx + s.ax * deltaTime
                            /\ ~s.clampToScreen =>
                                    /\ t.x = s.x + t.vx * deltaTime
                                    /\ t.y = s.y + t.vy * deltaTime
                            /\ s.clampToScreen =>
                                    t.x = Clamp(s.x + t.vx * deltaTime, s.width, VIRTUAL_WIDTH)

\* C16 witness: a sprite without drag has been accelerated by two frames of
\* one second, and a sprite with drag 1 has been stopped.
C16_Witness ==
    /\ lastCall.op = "frame" /\ ~lastCall.threw
    /\ frame.deltaTime = 1
    /\ \E i \in DOMAIN sprites :
            sprites[i].drag = 0 /\ sprites[i].vx = 7 /\ sprites[i].x = 12
    /\ \E i \in DOMAIN sprites :
            sprites[i].drag = 1 /\ sprites[i].vx = 0 /\ sprites[i].x = 25

\* C17: after the physics step of a frame every sprite with clampToScreen,
\* a width of at most 1280 and a height of at most 720 has
\* width/2 <= x <= 1280 - width/2 and height/2 <= y <= 720 - height/2.
C17_ClampedOnScreen ==
    (workspaceType = "2D" /\ loopRunning /\ CallbackBody(onUpdateCallback.fn) = <<>>) =>
        \A R \in NextFrames :
            \A i \in DOMAIN R.E.sprites :
                LET t == R.E.sprites[i]
                IN  (t.clampToScreen /\ t.width <= VIRTUAL_WIDTH /\ t.height <= VIRTUAL_HEIGHT) =>
                        /\ ~IsNaN(t.x) /\ ~IsNaN(t.y)
                        /\ t.width \div 2 <= t.x /\ t.x <= VIRTUAL_WIDTH - t.width \div 2
                        /\ t.height \div 2 <= t.y /\ t.y <= VIRTUAL_HEIGHT - t.height \div 2

\* C12: an exception of the health-check function stays inside the timer
\* callback: it is logged with console.error, no debugger-incident is posted
\* for it, the callback returns normally, and the timer stays armed, so later
\* ticks call the check again.
C12_HealthCheckContained ==
    /\ \A t \in intervals :
            LET B == customCheck(Cur, t.customCheck)
                R == _runHealthCheck(Cur, t.customCheck)
            IN  /\ ~R.threw
                /\ B.threw =>
                        /\ R.E.posted = B.E.posted
                        /\ \E i \in DOMAIN R.E.console : R.E.console[i].level = "error"
                        /\ [R.E EXCEPT !.console = <<>>] = [B.E EXCEPT !.console = <<>>]
    /\ lastCall.op = "healthCheck" =>
            /\ ~lastCall.threw
            /\ \E t \in intervals : t.id = lastCall.ref
            /\ \A i \in DOMAIN posted : posted[i].message # "Error: check failed"

\* C12 witness: the check of a timer has raised on two ticks in a row.
C12_Witness ==
    /\ lastCall.op = "healthCheck" /\ lastCall.case = "raised again"
    /\ \E i \in DOMAIN hostLog : hostLog[i].type = "error"

\* the last call was a console call
ConsoleCalled == lastCall.op \in {"console." \o level : level \in ConsoleLevels}

\* C18: the console serializer returns a string and raises nothing for every
\* input: null, undefined, primitives, functions, DOM-like objects, nested
\* arrays and objects, and self-referential ones. Stated for the value a
\* console call was just given.
C18_SerializerNeverRaises ==
    (ConsoleCalled /\ lastCall.ref = 1 /\ JsValues[lastCall.case].t # "string") =>
        LET R == safeSerialize(JsValues[lastCall.case], {})
        IN  /\ ~R.threw
            /\ hostLog = << [type |-> hostLog[1].type, message |-> R.text] >>

\* the text of a container of numbers as C19 describes it: the first 10
\* elements / keys, and ', ...' when there are more
Rendering(o) ==
    LET n == IF Len(o.vals) < 10 THEN Len(o.vals) ELSE 10
        marker == IF Len(o.vals) > 10 THEN ", ..." ELSE ""
    IN  IF o.kind = "array"
        THEN "[" \o Join([i \in 1..n |-> o.vals[i].s], ", ") \o marker \o "]"
        ELSE "{" \o Join([i \in 1..n |-> "\"" \o o.keys[i] \o "\": " \o o.vals[i].s], ", ")
                 \o marker \o "}"

\* C19: an array or plain object is rendered with at most its first 10
\* elements / keys, and the marker ', ...' is appended exactly when it has
\* more than 10. Stated for the arrays and objects of numbers a console call
\* was just given.
C19_TruncationMarker ==
    (ConsoleCalled /\ lastCall.ref = 1 /\ JsValues[lastCall.case].t = "object") =>
        LET o == Heap[JsValues[lastCall.case].at]
        IN  (o.vals # <<>> /\ \A i \in DOMAIN o.vals : o.vals[i].t = "number") =>
                hostLog[1].message = Rendering(o)

\* C20: every console.log / warn / error / info call first calls the original
\* method with the same arguments and then posts exactly one message to the
\* host, of type 'console' with the level of the call, or the fallback error
\* message when the serialization raised; the call never raises and the
\* override is entered once.
C20_ConsoleCallOrder ==
    /\ \A level \in ConsoleLevels, n \in DOMAIN JsValues, count \in {1, 2} :
            LET args == ConsoleArgs(n, count)
                R == consoleMethod(level, args)
                events == R.events
                At(ev) == {i \in DOMAIN events : events[i].ev = ev}
                M == serializeArgs(args, <<>>)
            IN  /\ ~R.threw
                /\ At("override") = {1}
                /\ events[2] = Native(level, ArgNames(args))
                /\ At("post") = {Len(events)}
                /\ \A i \in At("native") :
                        i # 2 => (M.threw /\ events[i].type = "error")
                /\ events[Len(events)] =
                        IF M.threw
                        THEN Posted("error", "Fatal error in custom console override.")
                        ELSE Posted(level, Join(M.texts, " "))
    /\ ConsoleCalled => (~lastCall.threw /\ Len(hostLog) = 1)

\* C20 witness: console.warn was just called with an argument whose
\* serialization raises, and the fallback message reached the host.
C20_Witness ==
    /\ lastCall.op = "console.warn"
    /\ hostLog = << [type |-> "error", message |-> "Fatal error in custom console override."] >>

\* C21: checkCollision(a, b) = checkCollision(b, a) and
\* checkCircularCollision(a, b) = checkCircularCollision(b, a), for every two
\* sprites, whatever their positions and sizes.
C21_CollisionSymmetric ==
    \A i, j \in DOMAIN sprites :
        /\ checkCollision(sprites[i], sprites[j]) = checkCollision(sprites[j], sprites[i])
        /\ checkCircularCollision(sprites[i], sprites[j])
             = checkCircularCollision(sprites[j], sprites[i])

\* C21 witness: the registry holds two sprites of different sizes that overlap
\* as boxes and not as circles, and their collisions were just asked for.
C21_Witness ==
    /\ lastCall.op = "getCollisions"
    /\ \E i, j \in DOMAIN sprites :
            /\ sprites[i].width # sprites[j].width
            /\ checkCollision(sprites[i], sprites[j])
            /\ ~checkCircularCollision(sprites[i], sprites[j])

\* C22: checkCollision is true exactly when a's left is less than b's right,
\* a's right greater than b's left, a's top less than b's bottom and a's
\* bottom greater than b's top (bounds in half units), and
\* checkCircularCollision exactly when the distance of the centers is less
\* than the sum of the radii; boxes that share only an edge and circles that
\* only touch do not collide.
C22_TouchingIsNoCollision ==
    \A i, j \in DOMAIN sprites :
        LET a == sprites[i]
            b == sprites[j]
            radii == (IF "radius" \in DOMAIN a THEN 2 * a.radius
                      ELSE IF a.width < a.height THEN a.width ELSE a.height)
                     + (IF "radius" \in DOMAIN b THEN 2 * b.radius
                        ELSE IF b.width < b.height THEN b.width ELSE b.height)
        IN  (~IsNaN(a.x) /\ ~IsNaN(b.x)) =>
                /\ checkCollision(a, b) =
                        /\ 2 * a.x - a.width < 2 * b.x + b.width
                        /\ 2 * a.x + a.width > 2 * b.x - b.width
                        /\ 2 * a.y - a.height < 2 * b.y + b.height
                        /\ 2 * a.y + a.height > 2 * b.y - b.height
                /\ (2 * a.x + a.width = 2 * b.x - b.width) => ~checkCollision(a, b)
                /\ (2 * a.y + a.height = 2 * b.y - b.height) => ~checkCollision(a, b)
                /\ checkCircularCollision(a, b) =
                        (4 * ((a.x - b.x) * (a.x - b.x) + (a.y - b.y) * (a.y - b.y))
                            < radii * radii)

\* C22 witness: the registry holds two boxes that share an edge and whose
\* circles touch, and their collisions were asked for and came back empty.
C22_Witness ==
    /\ lastCall.op = "getCollisions" /\ lastCall.case = "none"
    /\ Len(sprites) = 2
    /\ sprites[1].x + 50 = sprites[2].x /\ sprites[1].y = sprites[2].y
    /\ sprites[1].width = 50 /\ sprites[2].width = 50
    /\ "radius" \notin DOMAIN sprites[2]

\* C26: after the particle update of a frame every remaining particle has
\* life > 0: no particle with life <= 0 is there when the frame renders.
C26_ParticlesAlive ==
    (lastCall.op = "frame" /\ ~lastCall.threw /\ workspaceType = "2D") =>
        \A i \in DOMAIN particles : particles[i].life > 0

\* C27: create.sprite never raises, whether the config is missing, empty or
\* partial; omitted fields take their defaults, supplied ones are kept, and
\* the sprite is appended to the registry.
C27_CreateSpriteNeverThrows ==
    lastCall.op = "create.sprite" =>
        /\ ~lastCall.threw
        /\ sprites # <<>>
        /\ LET s == sprites[Len(sprites)]
               config == IF lastCall.case \in DOMAIN SpriteArgs /\ lastCall.case # "missing"
                         THEN SpriteArgs[lastCall.case][1] ELSE <<>>
               Default(k, v) == s[k] = IF k \in DOMAIN config THEN config[k] ELSE v
           IN  /\ Default("x", 0) /\ Default("y", 0) /\ Default("vx", 0)
               /\ Default("vy", 0) /\ Default("ax", 0) /\ Default("ay", 0)
               /\ Default("drag", 0) /\ Default("color", "white")
               /\ Default("type", "game")

\* C28: onUpdate keeps a single hook. A call of onUpdate makes its argument
\* the registered callback; a frame invokes the registered callback once,
\* no other (f and g log their names), and leaves it registered.
C28_SingleHook ==
    [][ /\ (lastCall'.op = "onUpdate") => onUpdateCallback'.fn = lastCall'.case
        /\ (lastCall'.op = "frame" /\ onUpdateCallback.fn \in {"f", "g"}) =>
                /\ hostLog' = << [type |-> "log", message |-> onUpdateCallback.fn] >>
                /\ onUpdateCallback' = onUpdateCallback
        /\ (lastCall'.op \notin {"onUpdate", "frame"}) =>
                onUpdateCallback' = onUpdateCallback ]_vars

\* C28 witness: f ran in an earlier frame, g was registered after it, and the
\* last frame invoked g once and not f.
C28_Witness ==
    /\ lastCall.op = "frame" /\ frame.count >= 2
    /\ "f" \in DOMAIN state
    /\ onUpdateCallback.fn = "g"
    /\ hostLog = << [type |-> "log", message |-> "g"] >>

\* C23: a loop over an array that getAllSprites() or getCollisions() returned
\* visits every element of that array once, in order, whatever the loop
\* destroys on the way: destroy() gives the registry a new array and leaves
\* the returned one as it was.
C23_IterationUnaffectedByDestroy ==
    [][ /\ (lastCall'.op = "forOf getAllSprites") =>
                hostLog' = [i \in DOMAIN sprites |->
                                [type |-> "log", message |-> sprites[i].id]]
        /\ (lastCall'.op = "forOf getCollisions") =>
                LET arr == getCollisions(Cur, sprites[1], FALSE).value
                IN  hostLog' = [i \in DOMAIN arr |->
                                    [type |-> "log", message |-> arr[i].id]] ]_vars

\* C23 witness: a loop over the three sprites getAllSprites() returned
\* destroyed each sprite as it visited it, and visited all three.
C23_Witness ==
    /\ lastCall.op = "forOf getAllSprites" /\ lastCall.case = "self"
    /\ lastCall.ref = 3 /\ Len(hostLog) = 3
    /\ sprites = <<>>

\* C24: a visual-editor-select message is sent only by a click while inspect
\* mode is on and an object is hovered; every toggle message sets inspect
\* mode to its `enabled`; and whenever inspect mode is off no object is
\* hovered, so that no click sends a select until a toggle enables it again.
C24_SelectOnlyWhileInspecting ==
    [][ /\ (selects' # selects) =>
                /\ isInspectMode /\ isInspectMode' /\ lastCall'.op = "click"
                /\ Len(selects') = Len(selects) + 1
                /\ ~Missing(IF workspaceType = "2D" THEN hoveredSprite ELSE hoveredMesh)
        /\ (lastCall'.op = "visual-editor-toggle") =>
                isInspectMode' = (lastCall'.case = "on")
        /\ (lastCall'.op # "visual-editor-toggle") => isInspectMode' = isInspectMode
        /\ ~isInspectMode' => Missing(hoveredSprite') /\ Missing(hoveredMesh') ]_vars

\* C24 witness: an object was selected, inspect mode was then turned off, and
\* the click that followed sent nothing.
C24_Witness ==
    /\ lastCall.op = "click" /\ lastCall.case = "ignored"
    /\ ~isInspectMode
    /\ Len(selects) = 1
    /\ frame.count >= 2

\* C25: in the 2D and in the 3D loop the just-pressed key set is cleared once
\* per frame: after a frame has completed no key is in it.
C25_JustPressedCleared ==
    (lastCall.op = "frame" /\ ~lastCall.threw) => keysJustPressed = {}

\* C29: when the load of an image fails, the error is logged, the url is
\* afterwards neither in the cache nor in the in-flight set, and the registry
\* is as it was; and a load is started (a url enters the in-flight set) only
\* by create.sprite or background.setImage, never by the engine on its own.
C29_LoadFailure ==
    [][ /\ (lastCall'.op = "img.onerror") =>
                /\ hostLog' = << [type |-> "error",
                                  message |-> "Failed to load image: " \o lastCall'.case] >>
                /\ lastCall'.case \notin assetCache' \cup loadingAssets'
                /\ sprites' = sprites
        /\ (loadingAssets' \ loadingAssets # {}) =>
                lastCall'.op \in {"create.sprite", "background.setImage"} ]_vars

\* C29 witness: the load of a sprite's image failed, frames and a health check
\* ran since, the sprite is in the registry and no load of the url is in
\* flight.
C29_Witness ==
    /\ lastCall.op = "healthCheck" /\ frame.count >= 1
    /\ \E i \in DOMAIN sprites : sprites[i].imageUrl = "hero.png"
    /\ "hero.png" \notin assetCache \cup loadingAssets
    /\ \E i \in DOMAIN posted : posted[i].suspect = "Asset Check"

\* the obstacles in a registry
Obstacles(ss) == SelectSeq(ss, LAMBDA s : s.name = "obstacle")

\* C30: in a frame of the starter game the score rises by exactly 100 for
\* every obstacle destroyed, whatever the number of bullets and obstacles;
\* and a bullet and an obstacle that overlap when the callback runs are both
\* removed from the registry.
C30_ScorePerObstacle ==
    [][ (lastCall'.op = "frame" /\ ~lastCall'.threw /\ onUpdateCallback.fn = "starter") =>
            /\ state'.score
                 = state.score + 100 * (Len(Obstacles(sprites)) - Len(Obstacles(sprites')))
            /\ frame'.deltaTime = 0 =>
                    \A i, j \in DOMAIN sprites :
                        ( /\ sprites[i].name = "bullet" /\ sprites[j].name = "obstacle"
                          /\ checkCollision(sprites[i], sprites[j]) ) =>
                            \A k \in DOMAIN sprites' :
                                sprites'[k].ref \notin {sprites[i].ref, sprites[j].ref} ]_vars

\* C31: drag is frame-rate independent: without acceleration, a second
\* simulated as 60 steps of 1/60 s and as 30 steps of 1/30 s ends with the
\* same velocity (exactly so in exact arithmetic, so within any tolerance);
\* and so does any equal time simulated at the two rates.
C31_DragFrameRateIndependent ==
    /\ (simulated.at60.steps = StepsAt60 /\ simulated.at30.steps = StepsAt30) =>
            /\ SameVelocity(simulated.at60.vx, simulated.at30.vx)
            /\ SameVelocity(simulated.at60.vy, simulated.at30.vy)
    /\ simulated.at60.steps * StepsAt30 = simulated.at30.steps * StepsAt60 =>
            /\ SameVelocity(simulated.at60.vx, simulated.at30.vx)
            /\ SameVelocity(simulated.at60.vy, simulated.at30.vy)

\* a second was simulated at both rates, for a sprite that moves
C31_Witness ==
    /\ simulated.at60.steps = StepsAt60 /\ simulated.at30.steps = StepsAt30
    /\ simulated.at60.vx.c # 0 /\ simulated.at60.vx.k = 60

\* C32: after any number of LeapGuard.init calls exactly one health-check
\* timer is active, the one init set last, and it calls the check function
\* given to that init; timers change in init only, and a tick is never one
\* of an earlier timer.
C32_OneHealthCheckTimer ==
    [][ /\ Cardinality(intervals') = 1
        /\ \A t \in intervals' : t.id = _healthCheckIntervalId'
        /\ lastCall'.op = "init" =>
                \A t \in intervals' : t.customCheck = lastCall'.case
        /\ lastCall'.op # "init" => intervals' = intervals
        /\ lastCall'.op = "healthCheck" => lastCall'.ref = _healthCheckIntervalId ]_vars

\* init ran twice after the engine's own, and the third timer ticked
C32_Witness ==
    /\ lastCall.op = "healthCheck" /\ lastCall.ref = 3 /\ _healthCheckIntervalId = 3
    /\ \E t \in intervals : t.customCheck = "throwing"

\* C33: for any interleaving of loadImage calls with load and error events,
\* each url has at most one load in flight, the in-flight set holds exactly
\* the urls of the pending loads, no load is started for a url in the cache,
\* and no url is in the cache and in flight at the same time.
C33_LoadsDeduplicated ==
    [][ /\ \A i, j \in DOMAIN images' : images'[i] = images'[j] => i = j
        /\ Range(images') = loadingAssets'
        /\ assetCache' \cap loadingAssets' = {}
        /\ Len(images') > Len(images) =>
                /\ images'[Len(images')] \notin assetCache
                /\ images'[Len(images')] \notin loadingAssets ]_vars

\* one image is in the cache and the load of the other is in flight, and
\* both were asked for again, by a sprite and by the background
C33_Witness ==
    /\ lastCall.op = "background.setImage"
    /\ "hero.png" \in assetCache /\ images = <<"tile.png">>
    /\ \E i \in DOMAIN sprites : sprites[i].imageUrl = "tile.png"
    /\ background.url = "hero.png"

\* the identities of the objects of a registry, in registry order
Members(registry) == [i \in DOMAIN registry |-> registry[i].ref]

\* C34: a frame of the loop whose callback makes no engine call (physics,
\* hit test, particle update, rendering) and a run of the health check leave
\* the membership of the registry as it was: no object is added or removed.
C34_RegistryStable ==
    [][ lastCall'.op \in {"frame", "healthCheck"} =>
            /\ Members(sprites') = Members(sprites)
            /\ Members(meshes') = Members(meshes) ]_vars

\* a frame ran in inspect mode over a hovered sprite and a sprite with a NaN
\* position that the health check has reported
C34_Witness ==
    /\ lastCall.op = "frame" /\ isInspectMode /\ ~Missing(hoveredSprite)
    /\ \E i \in DOMAIN sprites : IsNaN(sprites[i].x)
    /\ \E i \in DOMAIN posted : posted[i].suspect = "Data Integrity Check"

\* a rendered frame takes its deltaTime off a shake that is on, and leaves
\* the camera alone otherwise
C35_ShakeStep ==
    [][ (lastCall'.op = "frame" /\ ~lastCall'.threw) =>
                IF camera.shakeDuration > 0
                THEN /\ camera'.shakeDuration = camera.shakeDuration - frame'.deltaTime
                     /\ camera'.shakeIntensity =
                            IF camera'.shakeDuration <= 0 THEN 0 ELSE camera.shakeIntensity
                ELSE camera' = camera ]_vars

\* a shake that is on ends, given frames that take time
C35_ShakeEnds ==
    (camera.shakeDuration > 0 /\ frame.count + camera.shakeDuration <= MaxFrames)
            ~> (\/ camera.shakeDuration <= 0 /\ camera.shakeIntensity = 0
                \/ lastCall.op = "camera.shake"
                \/ lastCall.op = "frame" /\ frame.deltaTime = 0)

\* C35: while a shake is on (remaining duration > 0), a rendered frame takes
\* its deltaTime off the remaining duration and sets the intensity to 0 in
\* the frame in which the duration reaches 0 or less; when no shake is on, a
\* frame leaves the camera alone (no shake translation); and a shake that
\* is on ends (duration <= 0, intensity 0) when the frames of the run that
\* follow suffice, unless shake is called again or a frame takes no time.
C35_ShakeRunsDown == C35_ShakeStep /\ C35_ShakeEnds

\* a frame has taken a second off a shake of two seconds, which is still on
C35_Witness ==
    /\ lastCall.op = "frame" /\ frame.deltaTime = 1
    /\ camera.shakeDuration = 1 /\ camera.shakeIntensity = 10

\* C36: at the end of every run of the 2D health check, every sprite of the
\* registry whose x or y is NaN has had a 'Data Integrity Check' incident
\* with its own id in the context forwarded to the host, in this run or in an
\* earlier one.
C36_NaNSpriteReported ==
    ( /\ workspaceType = "2D" /\ lastCall.op = "healthCheck"
      /\ \E t \in intervals : t.id = lastCall.ref /\ t.customCheck = "healthCheck" ) =>
        \A i \in DOMAIN sprites :
            (IsNaN(sprites[i].x) \/ IsNaN(sprites[i].y)) =>
                \E j \in DOMAIN posted :
                    /\ posted[j].suspect = "Data Integrity Check"
                    /\ "id" \in DOMAIN posted[j].context
                    /\ posted[j].context.id = sprites[i].id

\* the ids the host can find objects by: sprite ids in 2D, mesh uuids in 3D
RegistryIds ==
    IF workspaceType = "2D" THEN {sprites[i].id : i \in DOMAIN sprites}
    ELSE {meshes[i].uuid : i \in DOMAIN meshes}

\* C37: every visual-editor-select message names an object that is in the
\* registry when the click is handled: an object destroyed since the last hit
\* test is never reported as selected.
C37_SelectedIsLive ==
    [][ Len(selects') > Len(selects) => selects'[Len(selects')].id \in RegistryIds ]_vars

\* C38: destroy() on one object, and Engine.destroy of one object, removes
\* nothing else: every other member of the registry is a member afterwards,
\* whatever the configs the objects were created with.
C38_DestroyRemovesOne ==
    [][ lastCall'.op \in {"destroy", "Engine.destroy"} =>
            /\ \A i \in DOMAIN sprites :
                    sprites[i].ref # lastCall'.ref =>
                        \E j \in DOMAIN sprites' : sprites'[j].ref = sprites[i].ref
            /\ \A i \in DOMAIN meshes :
                    meshes[i].ref # lastCall'.ref =>
                        \E j \in DOMAIN meshes' : meshes'[j].ref = meshes[i].ref ]_vars

\* C39: scene.load is atomic on failure: when the setup function of
\* scene.load(name) raises, the exception is reported to the host and raised
\* again, and the registry, the particles, the camera and the update callback
\* are as they were before the call.
C39_SceneLoadAtomic ==
    [][ (lastCall'.op = "scene.load" /\ lastCall'.threw) =>
            /\ \E i \in DOMAIN posted' :
                    posted'[i].suspect = "Exception in Engine.scene.load"
            /\ Members(sprites') = Members(sprites)
            /\ Members(meshes') = Members(meshes)
            /\ Len(particles') = Len(particles)
            /\ camera' = camera
            /\ onUpdateCallback'.fn = onUpdateCallback.fn ]_vars

\* the places of the 'Performance Check' incidents among the incidents
\* forwarded to the host
PerformanceIncidents(forwarded) ==
    {i \in DOMAIN forwarded : forwarded[i].suspect = "Performance Check"}

\* threatLevel + suspect + message of a forwarded incident
IncidentHash(payload) == payload.threatLevel \o payload.suspect \o payload.message

\* C40: while the population of the registry stays above the threshold of the
\* performance check (500 sprites in 2D, 300 meshes in 3D), a run of the health
\* check forwards no further 'Performance Check' incident for as long as the
\* key of one already forwarded is in the dedup set, however the population
\* has changed above the threshold. (In a crowded game the population, once
\* above the threshold, stays above it.)
C40_OnePerformanceIncident ==
    [][ ( /\ lastCall'.op = "healthCheck"
          /\ Population > Threshold
          /\ \E i \in PerformanceIncidents(posted) :
                IncidentHash(posted[i]) \in Range(_incidents) )
        => PerformanceIncidents(posted') = PerformanceIncidents(posted) ]_vars

====
